---- MODULE Spec2Model ----
(***************************************************************************)
(* SeoForge: the team-permission model of the Supabase back end (tables,  *)
(* row-level-security policies, triggers and the client functions of      *)
(* src/lib/supabase.ts), the parallel Firebase client functions, and the  *)
(* article editor component that gates its writes on canEdit.             *)
(*                                                                         *)
(* Conventions of the database model                                       *)
(*  - auth.uid() is the `uid` parameter; NoUser is a request without a     *)
(*    session (role anon: every policy is declared TO authenticated).      *)
(*  - a policy's sub-select on team_members is evaluated on the table as   *)
(*    it is when the statement starts (the statement's snapshot).          *)
(*  - a statement followed by .select() needs the SELECT policies for the  *)
(*    rows it returns; .single() fails unless exactly one row comes back.  *)
(*  - time is counted in days.                                             *)
(***************************************************************************)
EXTENDS Integers, FiniteSets, Sequences, Bags, TLC

VARIABLES
    team_members,         \* table team_members: set of rows
    projects,             \* table projects: set of rows
    articles,             \* table articles: set of rows
    project_invitations,  \* table project_invitations: set of rows
    now,                  \* the database clock now(), in days
    calls,                \* client calls that are between two awaits
    last,                 \* the response of the call that returned last
    title,                \* editor: the title input
    html,                 \* editor: editor.getHTML()
    currentProject,       \* projectStore: the id of currentProject, or NoId
    currentArticleId,     \* editor: the article being edited, or NoId
    canEdit,              \* editor: the result of the last permission check
    isSaving,             \* editor: busy flag of handleSave
    isGenerating,         \* editor: busy flag of handleGenerateContent
    userProfile,          \* authStore: usage_count of the profile, or NoProfile
    notification,         \* the notification shown last
    tasks,                \* editor: the handlers that are at an await (a bag)
    activity_logs,        \* table activity_logs: set of rows
    logError,             \* what log_activity failed with in the last step, or ""
    user,                 \* authStore: the user signed in, or NoUser for null
    initialized,          \* authStore: initialize() has finished
    loading,              \* authStore: busy flag of signIn, signUp and signOut
    currentView,          \* App: the view chosen by the hash router
    hash,                 \* window.location.hash
    authTasks,            \* authStore: the functions and callbacks at an await (a bag)
    storeArticles,        \* projectStore: articles, a set of rows of table articles
    storeLoading          \* projectStore: loading

dbVars == <<team_members, projects, articles, project_invitations>>

logVars == <<activity_logs, logError>>

appVars == <<user, initialized, loading, currentView, hash, authTasks>>

storeVars == <<storeArticles, storeLoading>>

apiVars == <<team_members, projects, articles, project_invitations, now, calls, last>>

uiVars == <<title, html, currentProject, currentArticleId, canEdit, isSaving, isGenerating,
            userProfile, notification, tasks>>

\* what the specifications of the back end leave alone
otherVars == <<uiVars, logVars, appVars, storeVars>>

\* what the editor's handlers leave alone besides apiVars
editorFrame == <<logVars, appVars, storeVars>>

vars == <<apiVars, uiVars, logVars, appVars, storeVars>>

----------------------------------------------------------------------------
(* Bounds of the model *)

MaxTime == 8
MaxArticles == 1
MaxProjects == 3
MaxInvitations == 3
MaxCalls == 1
MaxFirebaseCalls == 2
MaxTasks == 2
MaxUsage == 2

(* Program constants *)

InviteTtlDays == 7

----------------------------------------------------------------------------
(* Value sets *)

NoUser == "anon"
Users == {"u1", "u2", "u3"}
Callers == Users \cup {NoUser}

Emails == {"e1", "e2", "e3"}

UserEmail(u) == CASE u = "u1" -> "e1" [] u = "u2" -> "e2" [] u = "u3" -> "e3" [] OTHER -> "none"

ProjectIds == 1..MaxProjects
NoId == 0
NullTime == -1

MemberRoles == {"owner", "admin", "editor", "viewer"}
InvitationRoles == {"admin", "editor", "viewer"}
MemberStatuses == {"pending", "active", "inactive"}

Docs == {"d1", "d2"}

----------------------------------------------------------------------------
(* Row-level-security policies.  Each is the USING / WITH CHECK expression *)
(* of the policy of that name, for the row `row` and the caller `uid`.     *)

\* MemberProjects without "AND status = 'active'"
MemberProjects_anyStatus(tm, uid, roles) ==
    {r.project_id : r \in {x \in tm : x.user_id = uid /\ x.role \in roles}}

\* SELECT project_id FROM team_members WHERE user_id = auth.uid()
\*   AND role IN (roles) AND status = 'active'
MemberProjects(tm, uid, roles) ==
    {r.project_id : r \in {x \in tm : /\ x.user_id = uid
                                      /\ x.role \in roles
                                      /\ x.status = "active"}}

\* "Users can view projects they are team members of"
ProjectsViewPolicy(tm, uid, row) ==
    uid # NoUser /\ row.id \in MemberProjects(tm, uid, MemberRoles)

\* "Users can create projects"
ProjectsCreatePolicy(uid, row) ==
    uid # NoUser /\ uid = row.user_id /\ uid = row.owner_id

\* "Team members can view project articles"
ArticlesViewPolicy(tm, uid, row) ==
    uid # NoUser /\ row.project_id \in MemberProjects(tm, uid, MemberRoles)

\* ArticlesEditPolicy with every role admitted
ArticlesEditPolicy_anyRole(tm, uid, row) ==
    uid # NoUser /\ row.project_id \in MemberProjects(tm, uid, MemberRoles)

\* "Team members with edit rights can create articles" and
\* "Team members with edit rights can update articles"
ArticlesEditPolicy(tm, uid, row) ==
    uid # NoUser /\ row.project_id \in MemberProjects(tm, uid, {"owner", "admin", "editor"})

\* "Users can view team members of their projects"
TeamMembersViewPolicy(tm, uid, row) ==
    uid # NoUser /\ row.project_id \in MemberProjects(tm, uid, MemberRoles)

\* TeamMembersManagePolicy with editors admitted as well
TeamMembersManagePolicy_editors(tm, uid, row) ==
    uid # NoUser /\ row.project_id \in MemberProjects(tm, uid, {"owner", "admin", "editor"})

\* "Project owners and admins can manage team members" (FOR ALL)
TeamMembersManagePolicy(tm, uid, row) ==
    uid # NoUser /\ row.project_id \in MemberProjects(tm, uid, {"owner", "admin"})

\* "Users can view invitations for their projects"
InvitationsViewPolicy(tm, uid, row) ==
    uid # NoUser /\ row.project_id \in MemberProjects(tm, uid, {"owner", "admin"})

\* "Project owners and admins can manage invitations" (FOR ALL)
InvitationsManagePolicy(tm, uid, row) ==
    uid # NoUser /\ row.project_id \in MemberProjects(tm, uid, {"owner", "admin"})

(* The policies that apply to a command are OR-ed; a FOR ALL policy applies *)
(* to every command and its USING expression is also its WITH CHECK.        *)

TeamMembersReadable(tm, uid, row) ==
    TeamMembersViewPolicy(tm, uid, row) \/ TeamMembersManagePolicy(tm, uid, row)

TeamMembersWritable(tm, uid, row) == TeamMembersManagePolicy(tm, uid, row)

InvitationsReadable(tm, uid, row) ==
    InvitationsViewPolicy(tm, uid, row) \/ InvitationsManagePolicy(tm, uid, row)

InvitationsWritable(tm, uid, row) == InvitationsManagePolicy(tm, uid, row)

----------------------------------------------------------------------------
(* Table constraints *)

\* TeamMembersUnique without the constraint
TeamMembersUnique_none(tm, row) == TRUE

\* team_members: UNIQUE(user_id, project_id)
TeamMembersUnique(tm, row) ==
    ~ \E r \in tm : r.user_id = row.user_id /\ r.project_id = row.project_id

\* team_members: CHECK (role IN ...), CHECK (status IN ...)
TeamMembersCheck(row) == row.role \in MemberRoles /\ row.status \in MemberStatuses

\* project_invitations: CHECK (role IN ('admin', 'editor', 'viewer'))
InvitationsCheck(row) == row.role \in InvitationRoles

\* REFERENCES projects(id)
ProjectExists(pr, pid) == \E p \in pr : p.id = pid

\* gen_random_uuid(): an id no row of the table carries
FreshId(rows, max) == 
    IF \E i \in 1..max : ~ \E r \in rows : r.id = i
    THEN CHOOSE i \in 1..max : /\ ~ \E r \in rows : r.id = i
                               /\ \A j \in 1..(i - 1) : \E r \in rows : r.id = j
    ELSE NoId

\* a pending invitation: accepted_at IS NULL AND expires_at > now
\* Pending without the expiry comparison
Pending_neverExpires(inv, t) == inv.accepted_at = NullTime

\* an invitation is pending at time t: .is('accepted_at', null) and
\* .gt('expires_at', now)
Pending(inv, t) == inv.accepted_at = NullTime /\ inv.expires_at > t

\* a project_invitations row as an INSERT at time t makes it: created_at
\* defaults to now(), expires_at to now() + interval '7 days', accepted_at
\* to NULL
NewInvitation(id, pid, email, role, by, t) ==
    [id |-> id, project_id |-> pid, email |-> email, role |-> role, invited_by |-> by,
     created_at |-> t, expires_at |-> t + InviteTtlDays, accepted_at |-> NullTime]

----------------------------------------------------------------------------
(* Responses.  Every client function returns {data, error}; `last` keeps   *)
(* the response of the call that returned last, with the caller and those  *)
(* of the call's arguments that identify what it was about; `at` is the   *)
(* time at which the call was made.                                        *)

NullRole == "null"

NoResp ==
    [op |-> "none", at |-> NullTime, caller |-> NoUser, project |-> NoId, user |-> NoUser,
     email |-> "", role |-> NullRole, id |-> NoId, ids |-> {},
     data |-> FALSE, err |-> ""]

ErrNotAuthenticated == "User not authenticated"
ErrAlreadyMember == "User is already a team member"
ErrAlreadyInvited == "Invitation already sent to this email"
ErrInvalidInvitation == "Invalid or expired invitation"
ErrEmailMismatch == "Invitation email does not match your account"
ErrRls == "new row violates row-level security policy"
ErrNotSingle == "JSON object requested, multiple (or no) rows returned"
ErrUnique == "duplicate key value violates unique constraint"
ErrForeignKey == "insert or update violates foreign key constraint"

NoCall ==
    [op |-> "idle", pc |-> "", at |-> NullTime, caller |-> NoUser, project |-> NoId,
     email |-> "", role |-> NullRole, id |-> NoId, by |-> NoUser]

Slots == DOMAIN calls

FreeSlots == {k \in Slots : calls[k] = NoCall}

\* the slot a new call takes
NewSlot == CHOOSE k \in FreeSlots : \A j \in FreeSlots : k <= j

----------------------------------------------------------------------------
(* src/lib/supabase.ts: the read functions, as the rows they return.       *)

\* getUserProjects: projects with an embedded team_members row of the
\* caller that is active (team_members!inner), under both tables' policies
getUserProjects(tm, pr, uid) ==
    {p.id : p \in {x \in pr :
        /\ ProjectsViewPolicy(tm, uid, x)
        /\ \E r \in tm : /\ TeamMembersReadable(tm, uid, r)
                         /\ r.project_id = x.id
                         /\ r.user_id = uid
                         /\ r.status = "active"}}

\* getProjectArticles
getProjectArticles(tm, ar, uid, pid) ==
    {a.id : a \in {x \in ar : ArticlesViewPolicy(tm, uid, x) /\ x.project_id = pid}}

\* getProjectInvitations
getProjectInvitations(tm, inv, uid, pid, t) ==
    {i.id : i \in {x \in inv : /\ InvitationsReadable(tm, uid, x)
                               /\ x.project_id = pid
                               /\ Pending(x, t)}}

\* getUserProjectRole: the role of the caller's active row, null when the
\* caller has no session or .single() does not get exactly one row
getUserProjectRole(tm, uid, pid) ==
    LET rows == {r \in tm : /\ TeamMembersReadable(tm, uid, r)
                            /\ r.project_id = pid
                            /\ r.user_id = uid
                            /\ r.status = "active"}
    IN  IF uid = NoUser THEN NullRole
        ELSE IF Cardinality(rows) # 1 THEN NullRole
        ELSE (CHOOSE r \in rows : TRUE).role

\* canUserEditProject without 'editor' in the list of roles
canUserEditProject_noEditor(tm, uid, pid) ==
    LET role == getUserProjectRole(tm, uid, pid)
    IN  role # NullRole /\ role \in {"owner", "admin"}

canUserEditProject(tm, uid, pid) ==
    LET role == getUserProjectRole(tm, uid, pid)
    IN  role # NullRole /\ role \in {"owner", "admin", "editor"}

canUserManageTeam(tm, uid, pid) ==
    LET role == getUserProjectRole(tm, uid, pid)
    IN  role # NullRole /\ role \in {"owner", "admin"}

----------------------------------------------------------------------------
(* src/lib/supabase.ts: the functions that are one statement.              *)

\* The trigger create_project_owner_membership_trigger (AFTER INSERT ON
\* projects).  The function is not SECURITY DEFINER, so its INSERT is the
\* caller's and is subject to the team_members policies.  TRUE when the
\* owner row can be inserted.
create_project_owner_membership(tm, uid, ownerRow) ==
    TeamMembersWritable(tm, uid, ownerRow) /\ TeamMembersUnique(tm, ownerRow)

\* The two versions of the trigger function: the one that lets the failure
\* abort the INSERT on projects, and the one with EXCEPTION WHEN OTHERS.
TriggerVersions == {"raise", "swallow"}

createProject(u) ==
    \E version \in TriggerVersions :
    LET row == [id |-> FreshId(projects, MaxProjects), user_id |-> u, owner_id |-> u]
        ownerRow == [user_id |-> row.owner_id, project_id |-> row.id,
                     role |-> "owner", status |-> "active", invited_by |-> NoUser]
        resp == [NoResp EXCEPT !.at = now,
                 !.op = "createProject", !.caller = u, !.project = row.id]
    IN  /\ row.id # NoId
        /\ UNCHANGED <<articles, project_invitations, now, calls>>
        /\ IF u = NoUser
           THEN /\ last' = [resp EXCEPT !.err = ErrNotAuthenticated]
                /\ UNCHANGED <<projects, team_members>>
           ELSE IF ~ (ProjectsCreatePolicy(u, row) /\ ProjectsViewPolicy(team_members, u, row))
           THEN /\ last' = [resp EXCEPT !.err = ErrRls]
                /\ UNCHANGED <<projects, team_members>>
           ELSE IF create_project_owner_membership(team_members, u, ownerRow)
           THEN /\ projects' = projects \cup {row}
                /\ team_members' = team_members \cup {ownerRow}
                /\ last' = [resp EXCEPT !.data = TRUE, !.id = row.id]
           ELSE IF version = "raise"
           THEN /\ last' = [resp EXCEPT !.err = ErrRls]
                /\ UNCHANGED <<projects, team_members>>
           ELSE /\ projects' = projects \cup {row}
                /\ last' = [resp EXCEPT !.data = TRUE, !.id = row.id]
                /\ UNCHANGED team_members

createArticle(u, pid, doc) ==
    LET row == [id |-> FreshId(articles, MaxArticles), project_id |-> pid, content |-> doc]
        resp == [NoResp EXCEPT !.at = now,
                 !.op = "createArticle", !.caller = u, !.project = pid]
    IN  /\ row.id # NoId
        /\ UNCHANGED <<projects, team_members, project_invitations, now, calls>>
        /\ IF ~ (ArticlesEditPolicy(team_members, u, row) /\ ArticlesViewPolicy(team_members, u, row))
           THEN /\ last' = [resp EXCEPT !.err = ErrRls]
                /\ UNCHANGED articles
           ELSE IF ~ ProjectExists(projects, pid)
           THEN /\ last' = [resp EXCEPT !.err = ErrForeignKey]
                /\ UNCHANGED articles
           ELSE /\ articles' = articles \cup {row}
                /\ last' = [resp EXCEPT !.data = TRUE, !.id = row.id]

updateArticle(u, articleId, doc) ==
    LET rows == {a \in articles : /\ a.id = articleId
                                  /\ ArticlesEditPolicy(team_members, u, a)
                                  /\ ArticlesViewPolicy(team_members, u, a)}
        new == {[a EXCEPT !.content = doc] : a \in rows}
        resp == [NoResp EXCEPT !.at = now,
                 !.op = "updateArticle", !.caller = u, !.id = articleId]
    IN  /\ UNCHANGED <<projects, team_members, project_invitations, now, calls>>
        /\ IF \E a \in new : ~ ArticlesEditPolicy(team_members, u, a)
           THEN /\ last' = [resp EXCEPT !.err = ErrRls]
                /\ UNCHANGED articles
           ELSE IF Cardinality(rows) # 1
           THEN /\ last' = [resp EXCEPT !.err = ErrNotSingle]
                /\ UNCHANGED articles
           ELSE /\ articles' = (articles \ rows) \cup new
                /\ last' = [resp EXCEPT !.data = TRUE,
                                        !.project = (CHOOSE a \in new : TRUE).project_id]

\* UPDATE team_members SET column = value
\*   WHERE project_id = pid AND user_id = userId, with .select().single()
UpdateTeamMember(resp, u, pid, userId, column, value) ==
    LET rows == {r \in team_members : /\ r.project_id = pid
                                      /\ r.user_id = userId
                                      /\ TeamMembersWritable(team_members, u, r)
                                      /\ TeamMembersReadable(team_members, u, r)}
        new == {[r EXCEPT ![column] = value] : r \in rows}
    IN  /\ UNCHANGED <<projects, articles, project_invitations, now, calls>>
        /\ IF \E r \in new : ~ (TeamMembersWritable(team_members, u, r) /\ TeamMembersCheck(r))
           THEN /\ last' = [resp EXCEPT !.err = ErrRls]
                /\ UNCHANGED team_members
           ELSE IF Cardinality(rows) # 1
           THEN /\ last' = [resp EXCEPT !.err = ErrNotSingle]
                /\ UNCHANGED team_members
           ELSE /\ team_members' = (team_members \ rows) \cup new
                /\ last' = [resp EXCEPT !.data = TRUE]

removeTeamMember(u, pid, userId) ==
    LET resp == [NoResp EXCEPT !.at = now,
                 !.op = "removeTeamMember", !.caller = u, !.project = pid,
                 !.user = userId]
    IN  UpdateTeamMember(resp, u, pid, userId, "status", "inactive")

updateTeamMemberRole(u, pid, userId, role) ==
    LET resp == [NoResp EXCEPT !.at = now,
                 !.op = "updateTeamMemberRole", !.caller = u, !.project = pid]
    IN  UpdateTeamMember(resp, u, pid, userId, "role", role)

cancelInvitation(u, invitationId) ==
    LET rows == {i \in project_invitations : /\ i.id = invitationId
                                             /\ InvitationsWritable(team_members, u, i)
                                             /\ InvitationsReadable(team_members, u, i)}
        resp == [NoResp EXCEPT !.at = now,
                 !.op = "cancelInvitation", !.caller = u, !.id = invitationId]
    IN  /\ UNCHANGED <<projects, articles, team_members, now, calls>>
        /\ IF Cardinality(rows) # 1
           THEN /\ last' = [resp EXCEPT !.err = ErrNotSingle]
                /\ UNCHANGED project_invitations
           ELSE /\ project_invitations' = project_invitations \ rows
                /\ last' = [resp EXCEPT !.data = TRUE,
                                        !.project = (CHOOSE i \in rows : TRUE).project_id]

----------------------------------------------------------------------------
(* src/lib/supabase.ts: the functions that await several statements.  A    *)
(* call runs to its first statement when it begins and then one statement  *)
(* per step; the statements of other calls run in between.                 *)

\* inviteTeamMember: getCurrentUser and the team_members look-up
inviteTeamMember(u, pid, email, role) ==
    LET existingMember == {r \in team_members : /\ TeamMembersReadable(team_members, u, r)
                                                 /\ r.project_id = pid
                                                 /\ r.user_id = u}
        resp == [NoResp EXCEPT !.at = now,
                 !.op = "inviteTeamMember", !.caller = u, !.project = pid,
                               !.email = email]
    IN  /\ FreeSlots # {}
        /\ UNCHANGED <<dbVars, now>>
        /\ IF u = NoUser
           THEN /\ last' = [resp EXCEPT !.err = ErrNotAuthenticated]
                /\ UNCHANGED calls
           ELSE IF Cardinality(existingMember) = 1
           THEN /\ last' = [resp EXCEPT !.err = ErrAlreadyMember]
                /\ UNCHANGED calls
           ELSE /\ calls' = [calls EXCEPT ![NewSlot] =
                                [NoCall EXCEPT !.op = "inviteTeamMember", !.at = now, !.pc = "existingInvitation",
                                               !.caller = u, !.project = pid,
                                               !.email = email, !.role = role]]
                /\ UNCHANGED last

\* inviteTeamMember: the project_invitations look-up, then the INSERT
inviteTeamMember_step(k) ==
    LET c == calls[k]
        existingInvitation == {i \in project_invitations :
                                 /\ InvitationsReadable(team_members, c.caller, i)
                                 /\ i.project_id = c.project
                                 /\ i.email = c.email
                                 /\ Pending(i, now)}
        row == NewInvitation(FreshId(project_invitations, MaxInvitations), c.project,
                             c.email, c.role, c.caller, now)
        resp == [NoResp EXCEPT !.at = c.at,
                 !.op = "inviteTeamMember", !.caller = c.caller,
                               !.project = c.project, !.email = c.email]
    IN  /\ c.op = "inviteTeamMember"
        /\ UNCHANGED <<projects, articles, team_members, now>>
        /\ IF c.pc = "existingInvitation"
           THEN /\ UNCHANGED project_invitations
                /\ IF Cardinality(existingInvitation) = 1
                   THEN /\ last' = [resp EXCEPT !.err = ErrAlreadyInvited]
                        /\ calls' = [calls EXCEPT ![k] = NoCall]
                   ELSE /\ calls' = [calls EXCEPT ![k].pc = "insert"]
                        /\ UNCHANGED last
           ELSE /\ row.id # NoId
                /\ calls' = [calls EXCEPT ![k] = NoCall]
                /\ IF ~ (InvitationsWritable(team_members, c.caller, row)
                         /\ InvitationsReadable(team_members, c.caller, row)
                         /\ InvitationsCheck(row))
                   THEN /\ last' = [resp EXCEPT !.err = ErrRls]
                        /\ UNCHANGED project_invitations
                   ELSE IF ~ ProjectExists(projects, c.project)
                   THEN /\ last' = [resp EXCEPT !.err = ErrForeignKey]
                        /\ UNCHANGED project_invitations
                   ELSE /\ project_invitations' = project_invitations \cup {row}
                        /\ last' = [resp EXCEPT !.data = TRUE, !.id = row.id]

\* acceptInvitation: getCurrentUser, the invitation look-up by token and
\* the e-mail comparison.  The token of an invitation is modelled by its id.
acceptInvitation(u, token) ==
    LET found == {i \in project_invitations : /\ InvitationsReadable(team_members, u, i)
                                              /\ i.id = token
                                              /\ Pending(i, now)}
        invitation == CHOOSE i \in found : TRUE
        resp == [NoResp EXCEPT !.at = now,
                 !.op = "acceptInvitation", !.caller = u, !.id = token]
    IN  /\ FreeSlots # {}
        /\ UNCHANGED <<dbVars, now>>
        /\ IF u = NoUser
           THEN /\ last' = [resp EXCEPT !.err = ErrNotAuthenticated]
                /\ UNCHANGED calls
           ELSE IF Cardinality(found) # 1
           THEN /\ last' = [resp EXCEPT !.err = ErrInvalidInvitation]
                /\ UNCHANGED calls
           ELSE IF UserEmail(u) # invitation.email
           THEN /\ last' = [resp EXCEPT !.err = ErrEmailMismatch,
                                        !.project = invitation.project_id]
                /\ UNCHANGED calls
           ELSE /\ calls' = [calls EXCEPT ![NewSlot] =
                                [NoCall EXCEPT !.op = "acceptInvitation", !.at = now, !.pc = "insertMember",
                                               !.caller = u, !.project = invitation.project_id,
                                               !.email = invitation.email, !.role = invitation.role,
                                               !.id = invitation.id, !.by = invitation.invited_by]]
                /\ UNCHANGED last

\* acceptInvitation: the INSERT into team_members, then the UPDATE of the
\* invitation (no .select(): updating no row is not an error)
acceptInvitation_step(k) ==
    LET c == calls[k]
        row == [user_id |-> c.caller, project_id |-> c.project, role |-> c.role,
                status |-> "active", invited_by |-> c.by]
        rows == {i \in project_invitations : /\ i.id = c.id
                                             /\ InvitationsWritable(team_members, c.caller, i)
                                             /\ InvitationsReadable(team_members, c.caller, i)}
        resp == [NoResp EXCEPT !.at = c.at,
                 !.op = "acceptInvitation", !.caller = c.caller,
                               !.project = c.project, !.role = c.role, !.id = c.id]
    IN  /\ c.op = "acceptInvitation"
        /\ UNCHANGED <<projects, articles, now>>
        /\ IF c.pc = "insertMember"
           THEN /\ UNCHANGED project_invitations
                /\ IF ~ (TeamMembersWritable(team_members, c.caller, row)
                         /\ TeamMembersReadable(team_members, c.caller, row)
                         /\ TeamMembersCheck(row))
                   THEN /\ last' = [resp EXCEPT !.err = ErrRls]
                        /\ calls' = [calls EXCEPT ![k] = NoCall]
                        /\ UNCHANGED team_members
                   ELSE IF ~ TeamMembersUnique(team_members, row)
                   THEN /\ last' = [resp EXCEPT !.err = ErrUnique]
                        /\ calls' = [calls EXCEPT ![k] = NoCall]
                        /\ UNCHANGED team_members
                   ELSE IF ~ ProjectExists(projects, c.project)
                   THEN /\ last' = [resp EXCEPT !.err = ErrForeignKey]
                        /\ calls' = [calls EXCEPT ![k] = NoCall]
                        /\ UNCHANGED team_members
                   ELSE /\ team_members' = team_members \cup {row}
                        /\ calls' = [calls EXCEPT ![k].pc = "markAccepted"]
                        /\ UNCHANGED last
           ELSE /\ project_invitations' =
                       (project_invitations \ rows) \cup {[i EXCEPT !.accepted_at = now] : i \in rows}
                /\ calls' = [calls EXCEPT ![k] = NoCall]
                /\ last' = [resp EXCEPT !.data = TRUE, !.user = c.caller]
                /\ UNCHANGED team_members

----------------------------------------------------------------------------
(* The read functions as calls: the response carries the rows returned.    *)

getUserProjects_call(u) ==
    /\ UNCHANGED <<dbVars, now, calls>>
    /\ last' = IF u = NoUser
               THEN [NoResp EXCEPT !.at = now,
                 !.op = "getUserProjects", !.caller = u,
                                   !.err = ErrNotAuthenticated]
               ELSE [NoResp EXCEPT !.at = now,
                 !.op = "getUserProjects", !.caller = u, !.data = TRUE,
                                   !.ids = getUserProjects(team_members, projects, u)]

getProjectArticles_call(u, pid) ==
    /\ UNCHANGED <<dbVars, now, calls>>
    /\ last' = [NoResp EXCEPT !.at = now,
                 !.op = "getProjectArticles", !.caller = u, !.project = pid,
                              !.data = TRUE,
                              !.ids = getProjectArticles(team_members, articles, u, pid)]

getProjectInvitations_call(u, pid) ==
    /\ UNCHANGED <<dbVars, now, calls>>
    /\ last' = [NoResp EXCEPT !.at = now,
                 !.op = "getProjectInvitations", !.caller = u, !.project = pid,
                              !.data = TRUE,
                              !.ids = getProjectInvitations(team_members, project_invitations,
                                                            u, pid, now)]

\* checkPermissions of the editor: canUserEditProject(currentProject.id)
canUserEditProject_call(u, pid) ==
    /\ UNCHANGED <<dbVars, now, calls>>
    /\ last' = [NoResp EXCEPT !.at = now,
                 !.op = "canUserEditProject", !.caller = u, !.project = pid,
                              !.role = getUserProjectRole(team_members, u, pid),
                              !.data = canUserEditProject(team_members, u, pid)]

canUserManageTeam_call(u, pid) ==
    /\ UNCHANGED <<dbVars, now, calls>>
    /\ last' = [NoResp EXCEPT !.at = now,
                 !.op = "canUserManageTeam", !.caller = u, !.project = pid,
                              !.role = getUserProjectRole(team_members, u, pid),
                              !.data = canUserManageTeam(team_members, u, pid)]

\* the clock
Tick ==
    /\ now < MaxTime
    /\ now' = now + 1
    /\ UNCHANGED <<dbVars, calls, last>>

----------------------------------------------------------------------------
(* The database before the sessions under study.  The client functions     *)
(* cannot add a member themselves (see C6, C7 and C10), so the rows other  *)
(* than the owners' are rows written with a role that bypasses row-level   *)
(* security; the owner rows are those the collaboration migration writes   *)
(* for the projects that exist.  Every seed satisfies the tables'          *)
(* constraints.  Project 1 is owned by u1; u2 is seeded in it with any     *)
(* role and status, or not at all.  Project 2 is owned by u3, who has      *)
(* removed themself, and has u2 as an editor.  u3 is a stranger to         *)
(* project 1.                                                              *)

SeedProjects ==
    {[id |-> 1, user_id |-> "u1", owner_id |-> "u1"],
     [id |-> 2, user_id |-> "u3", owner_id |-> "u3"]}

SeedFixedMembers ==
    {[user_id |-> "u1", project_id |-> 1, role |-> "owner", status |-> "active",
      invited_by |-> NoUser],
     [user_id |-> "u3", project_id |-> 2, role |-> "owner", status |-> "inactive",
      invited_by |-> NoUser],
     [user_id |-> "u2", project_id |-> 2, role |-> "editor", status |-> "active",
      invited_by |-> "u3"]}

SeedMembers ==
    {{}} \cup
    {{[user_id |-> "u2", project_id |-> 1, role |-> r, status |-> s, invited_by |-> "u1"]} :
        r \in InvitationRoles, s \in {"active", "inactive"}}

\* projectStore as it is created: no articles, not loading
InitStore ==
    /\ storeArticles = {}
    /\ storeLoading = FALSE

\* activity_logs is empty and no log_activity call has been made
InitLogs ==
    /\ activity_logs = {}
    /\ logError = ""

\* the application as it is loaded: the authStore and App's useState at their
\* initial values, no hash in the address
InitApp ==
    /\ user = NoUser
    /\ initialized = FALSE
    /\ loading = FALSE
    /\ currentView = "landing"
    /\ hash = ""
    /\ authTasks = EmptyBag

\* the editor as it is mounted: useState initial values, no project chosen
InitEditor ==
    /\ title = ""
    /\ html = "<p></p>"
    /\ currentProject = NoId
    /\ currentArticleId = NoId
    /\ canEdit = FALSE
    /\ isSaving = FALSE
    /\ isGenerating = FALSE
    /\ notification = [msg |-> "", type |-> "none"]
    /\ tasks = EmptyBag

InitTables ==
    /\ InitEditor
    /\ InitLogs
    /\ InitStore
    /\ InitApp
    /\ userProfile = 0
    /\ projects = SeedProjects
    /\ \E m \in SeedMembers : team_members = SeedFixedMembers \cup m
    /\ articles = {}
    /\ now = InviteTtlDays - 1
    /\ calls = [k \in 1..MaxCalls |-> NoCall]
    /\ last = NoResp

SeedProjectIds == {p.id : p \in SeedProjects}

----------------------------------------------------------------------------
(* Spec: projects, articles and the team of a project.                     *)

Init ==
    /\ InitTables
    /\ project_invitations = {}

Next ==
    \/ \E u \in Callers : createProject(u) /\ UNCHANGED otherVars
    \/ \E u \in Callers, pid \in SeedProjectIds, doc \in Docs :
          createArticle(u, pid, doc) /\ UNCHANGED otherVars
    \/ \E u \in Callers, id \in 1..MaxArticles, doc \in Docs :
          updateArticle(u, id, doc) /\ UNCHANGED otherVars
    \/ \E u \in Callers, pid \in SeedProjectIds, t \in Users :
          removeTeamMember(u, pid, t) /\ UNCHANGED otherVars
    \/ \E u \in Callers, pid \in SeedProjectIds, t \in Users, r \in InvitationRoles :
          updateTeamMemberRole(u, pid, t, r) /\ UNCHANGED otherVars
    \/ \E u \in Callers : getUserProjects_call(u) /\ UNCHANGED otherVars
    \/ \E u \in Callers, pid \in SeedProjectIds :
          getProjectArticles_call(u, pid) /\ UNCHANGED otherVars
    \/ \E u \in Callers, pid \in SeedProjectIds :
          canUserEditProject_call(u, pid) /\ UNCHANGED otherVars

Spec == Init /\ [][Next]_vars

----------------------------------------------------------------------------
(* Claims checked under Spec *)

\* uid has, in tm, an active row for project pid with a role among roles
ActiveWithRole(tm, uid, pid, roles) ==
    \E r \in tm : /\ r.user_id = uid
                  /\ r.project_id = pid
                  /\ r.status = "active"
                  /\ r.role \in roles

EditRoles == {"owner", "admin", "editor"}

ArticleWrites == {"createArticle", "updateArticle"}

\* C2: the articles table changes only in a createArticle or updateArticle
\* call that returns data, and every such call is made by a user who, at
\* that moment, has an active team_members row with role owner, admin or
\* editor for the project of every article row written; a viewer, an
\* inactive member, a non-member and a request without a session never
\* get data back from either function.
C2_ArticleWritesNeedEditRights ==
    [][
        /\ articles' # articles =>
              /\ last'.op \in ArticleWrites
              /\ last'.data
              /\ \A a \in (articles' \ articles) \cup (articles \ articles') :
                    ActiveWithRole(team_members, last'.caller, a.project_id, EditRoles)
        /\ (last' # last /\ last'.op \in ArticleWrites /\ last'.data) =>
              ActiveWithRole(team_members, last'.caller, last'.project, EditRoles)
    ]_vars

\* C2 witness: an article of project 1 exists (an editor or better created
\* it) and u2, an active viewer of project 1, has just been refused an
\* update of it.
C2_Witness ==
    /\ last.op = "updateArticle"
    /\ last.caller = "u2"
    /\ ~ last.data
    /\ \E a \in articles : a.id = last.id /\ a.project_id = 1
    /\ ActiveWithRole(team_members, "u2", 1, {"viewer"})

\* C3: for every caller and project, canUserEditProject is true exactly
\* when the articles INSERT/UPDATE policy admits the caller for a row of
\* that project, that is exactly when the caller has an active membership
\* with role owner, admin or editor; it is false whenever the role look-up
\* returns null; and the answer a checkPermissions call gets is that value.
C3_GateAgreesWithPolicy ==
    /\ \A u \in Callers, pid \in ProjectIds :
          /\ canUserEditProject(team_members, u, pid)
                <=> ArticlesEditPolicy(team_members, u, [project_id |-> pid])
          /\ canUserEditProject(team_members, u, pid)
                <=> (u # NoUser /\ ActiveWithRole(team_members, u, pid, EditRoles))
          /\ getUserProjectRole(team_members, u, pid) = NullRole
                => ~ canUserEditProject(team_members, u, pid)
    /\ last.op = "canUserEditProject" =>
          (last.data <=> ActiveWithRole(team_members, last.caller, last.project, EditRoles))

\* C3 witness: a checkPermissions call of u2 for project 1 has answered
\* true for an editor, while the look-up fails for the stranger u3.
C3_Witness ==
    /\ last.op = "canUserEditProject"
    /\ last.caller = "u2"
    /\ last.project = 1
    /\ last.data
    /\ last.role = "editor"
    /\ getUserProjectRole(team_members, "u3", 1) = NullRole

\* uid has no active row for project pid
NoActiveRow(tm, uid, pid) ==
    ~ \E r \in tm : r.user_id = uid /\ r.project_id = pid /\ r.status = "active"

\* C5: a removeTeamMember call that returns data leaves the member's row
\* inactive, and in every state a user without an active row for a project
\* is not given the project by getUserProjects, passes neither the projects
\* nor the articles SELECT policy for it, gets none of its articles, has a
\* null role in it and cannot edit it.
C5_RemovalRevokesAccess ==
    /\ (last.op = "removeTeamMember" /\ last.data) =>
          NoActiveRow(team_members, last.user, last.project)
    /\ \A u \in Users, pid \in ProjectIds :
          NoActiveRow(team_members, u, pid) =>
             /\ pid \notin getUserProjects(team_members, projects, u)
             /\ \A p \in projects : p.id = pid => ~ ProjectsViewPolicy(team_members, u, p)
             /\ \A a \in articles : a.project_id = pid => ~ ArticlesViewPolicy(team_members, u, a)
             /\ getProjectArticles(team_members, articles, u, pid) = {}
             /\ getUserProjectRole(team_members, u, pid) = NullRole
             /\ ~ canUserEditProject(team_members, u, pid)
    /\ last.op = "getUserProjects" =>
          \A pid \in last.ids : ~ NoActiveRow(team_members, last.caller, pid)
    /\ last.op = "getProjectArticles" /\ NoActiveRow(team_members, last.caller, last.project)
          => last.ids = {}

\* C5 witness: u1 has just removed u2 from project 1, which has an article.
C5_Witness ==
    /\ last.op = "removeTeamMember"
    /\ last.data
    /\ last.caller = "u1"
    /\ last.user = "u2"
    /\ last.project = 1
    /\ \E a \in articles : a.project_id = 1
    /\ 2 \in getUserProjects(team_members, projects, "u2")

----------------------------------------------------------------------------
(* SpecTeam: the team of a project and its invitations.  Project 1 has a  *)
(* pending invitation for e3 (the account of u3), project 2 one for e1;   *)
(* both were created at time 0.                                           *)

SeedTeamInvitations ==
    {NewInvitation(1, 1, "e3", "editor", "u1", 0),
     NewInvitation(2, 2, "e1", "viewer", "u3", 0)}

InitTeam ==
    /\ InitTables
    /\ project_invitations = SeedTeamInvitations

\* the e-mail addresses invited: e2 is the account of u2, e3 that of u3
InviteEmails == {"e2", "e3"}

\* the team managed is that of project 1; project 2 and its invitation are
\* there for the requests that name a row of another project
ManagedProjects == {1}

NextTeam ==
    \/ \E u \in Callers, pid \in ManagedProjects, t \in {"u1", "u2"} :
          removeTeamMember(u, pid, t) /\ UNCHANGED otherVars
    \/ \E u \in Callers, pid \in ManagedProjects, t \in {"u1", "u2"}, r \in InvitationRoles :
          updateTeamMemberRole(u, pid, t, r) /\ UNCHANGED otherVars
    \/ \E u \in Callers, pid \in ManagedProjects, e \in InviteEmails :
          inviteTeamMember(u, pid, e, "editor") /\ UNCHANGED otherVars
    \/ \E k \in Slots : inviteTeamMember_step(k) /\ UNCHANGED otherVars
    \/ \E u \in Callers, id \in 1..MaxInvitations :
          cancelInvitation(u, id) /\ UNCHANGED otherVars
    \/ \E u \in Callers, pid \in SeedProjectIds :
          canUserManageTeam_call(u, pid) /\ UNCHANGED otherVars

SpecTeam == InitTeam /\ [][NextTeam]_vars

----------------------------------------------------------------------------
(* Claims checked under SpecTeam *)

ManageRoles == {"owner", "admin"}

TeamOps == {"updateTeamMemberRole", "removeTeamMember", "inviteTeamMember", "cancelInvitation"}

\* the rows by which two states of a table differ
ChangedRows(before, after) == (before \ after) \cup (after \ before)

\* C4: team_members and project_invitations change only in an
\* updateTeamMemberRole, removeTeamMember, inviteTeamMember or
\* cancelInvitation call that returns data, made by a caller who at that
\* moment has an active membership with role owner or admin in the project
\* of every row changed; no such call returns data to anyone else; and a
\* canUserManageTeam call answers true for exactly the callers with an
\* active owner or admin membership in the project asked about.
C4_OnlyManagersManageTeam ==
    [][
        /\ (team_members' # team_members \/ project_invitations' # project_invitations) =>
              /\ last'.op \in TeamOps
              /\ last'.data
              /\ \A r \in ChangedRows(team_members, team_members')
                          \cup ChangedRows(project_invitations, project_invitations') :
                    ActiveWithRole(team_members, last'.caller, r.project_id, ManageRoles)
        /\ (last' # last /\ last'.op \in TeamOps /\ last'.data) =>
              ActiveWithRole(team_members, last'.caller, last'.project, ManageRoles)
        /\ (last' # last /\ last'.op = "canUserManageTeam") =>
              /\ last'.data = canUserManageTeam(team_members, last'.caller, last'.project)
              /\ last'.data <=> ActiveWithRole(team_members, last'.caller, last'.project,
                                               ManageRoles)
    ]_vars

\* C4 witness: u2, an active admin of project 1, has just cancelled the
\* invitation of project 1, while the invitation of project 2, where u2 is
\* an editor, is still there.
C4_Witness ==
    /\ last.op = "cancelInvitation"
    /\ last.data
    /\ last.caller = "u2"
    /\ last.project = 1
    /\ ActiveWithRole(team_members, "u2", 1, {"admin"})
    /\ ActiveWithRole(team_members, "u2", 2, {"editor"})
    /\ {i.project_id : i \in project_invitations} = {2}

\* the user with e-mail address email has a team_members row in project pid
InviteeIsMember(tm, email, pid) ==
    \E r \in tm : r.project_id = pid /\ UserEmail(r.user_id) = email

\* C10: an inviteTeamMember call of a signed-in user returns 'User is
\* already a team member' exactly when the person invited has a
\* team_members row in the project.
C10_AlreadyMemberIffInviteeIsMember ==
    (last.op = "inviteTeamMember" /\ last.caller # NoUser) =>
        (last.err = ErrAlreadyMember
            <=> InviteeIsMember(team_members, last.email, last.project))

----------------------------------------------------------------------------
(* SpecInvitations: accepting, listing and cancelling invitations while    *)
(* time passes.  Project 1 has an invitation for e3 and one for e2, the    *)
(* account of u2, which is pending or was accepted at time 3; project 2    *)
(* has one for e1.  All were created at time 0 and expire at time 7.       *)

SeedAccepted == {NullTime, 3}

SeedInvitations(acceptedAt) ==
    {NewInvitation(1, 1, "e3", "editor", "u1", 0),
     [NewInvitation(2, 1, "e2", "admin", "u1", 0) EXCEPT !.accepted_at = acceptedAt],
     NewInvitation(3, 2, "e1", "viewer", "u3", 0)}

InitInvitations ==
    /\ InitTables
    /\ \E a \in SeedAccepted : project_invitations = SeedInvitations(a)

NextInvitations ==
    \/ \E u \in Callers, token \in 1..MaxInvitations :
          acceptInvitation(u, token) /\ UNCHANGED otherVars
    \/ \E k \in Slots : acceptInvitation_step(k) /\ UNCHANGED otherVars
    \/ \E u \in Callers, pid \in SeedProjectIds :
          getProjectInvitations_call(u, pid) /\ UNCHANGED otherVars
    \/ \E u \in Callers, id \in 1..MaxInvitations :
          cancelInvitation(u, id) /\ UNCHANGED otherVars
    \/ Tick /\ UNCHANGED otherVars

SpecInvitations == InitInvitations /\ [][NextInvitations]_vars

----------------------------------------------------------------------------
(* Claims checked under SpecInvitations *)

\* C7: an acceptInvitation call of a signed-in user who has no row in the
\* project, with the token of an unexpired invitation for the user's own
\* e-mail address that was unaccepted until this call, returns data and
\* leaves the user with an active team_members row carrying the
\* invitation's role and invited_by, and the invitation with accepted_at
\* set.
C7_InviteeAccepts ==
    \A i \in project_invitations :
       ( /\ last.op = "acceptInvitation"
         /\ last.id = i.id
         /\ last.caller # NoUser
         /\ UserEmail(last.caller) = i.email
         /\ i.expires_at > now
         /\ i.accepted_at = NullTime \/ last.data
         /\ last.data \/ ~ \E r \in team_members : /\ r.user_id = last.caller
                                                   /\ r.project_id = i.project_id )
       => /\ last.data
          /\ i.accepted_at # NullTime
          /\ \E r \in team_members : /\ r.user_id = last.caller
                                     /\ r.project_id = i.project_id
                                     /\ r.status = "active"
                                     /\ r.role = i.role
                                     /\ r.invited_by = i.invited_by

\* what C8 says of the invitations inv and of the response resp
InvitationsDead(inv, resp) ==
    /\ \A i \in inv : i.expires_at = i.created_at + InviteTtlDays
    /\ resp.op = "getProjectInvitations" =>
          \A i \in inv : i.id \in resp.ids =>
             /\ i.expires_at > resp.at
             /\ i.accepted_at = NullTime \/ i.accepted_at >= resp.at
    /\ (resp.op = "acceptInvitation" /\ resp.caller # NoUser) =>
          \A i \in inv :
             ( /\ i.id = resp.id
               /\ \/ i.expires_at <= resp.at
                  \/ i.accepted_at # NullTime /\ i.accepted_at < resp.at )
             => (resp.err = ErrInvalidInvitation /\ ~ resp.data)

\* C8: every invitation expires InviteTtlDays after its creation; an
\* invitation whose expires_at is not in the future, or that is accepted,
\* is not in what getProjectInvitations returns; an acceptInvitation call
\* that a signed-in user makes with its token returns 'Invalid or expired
\* invitation' and no data; team_members changes only in the INSERT of an
\* acceptInvitation call whose invitation was unaccepted and unexpired
\* when the call was made; and a row with accepted_at set is never written
\* again.
C8_ExpiredOrAcceptedInvitationsAreDead ==
    [][
        /\ InvitationsDead(project_invitations, last)
        /\ InvitationsDead(project_invitations', last')
        /\ team_members' # team_members =>
              \E k \in Slots :
                 /\ calls[k].op = "acceptInvitation"
                 /\ calls[k].pc = "insertMember"
                 /\ \A i \in project_invitations : i.id = calls[k].id =>
                       (i.accepted_at = NullTime /\ i.expires_at > calls[k].at)
        /\ \A i \in project_invitations : i.accepted_at # NullTime =>
              \A j \in project_invitations' : j.id = i.id => j = i
    ]_vars

\* C8 witness: at or after the expiry of invitation 1, u1, the owner of
\* project 1, who can read the row, has presented its token and got
\* 'Invalid or expired invitation'; the invitation is still unaccepted.
C8_Witness ==
    /\ last.op = "acceptInvitation"
    /\ last.caller = "u1"
    /\ last.id = 1
    /\ last.err = ErrInvalidInvitation
    /\ ActiveWithRole(team_members, "u1", 1, {"owner"})
    /\ \E i \in project_invitations : /\ i.id = 1
                                      /\ i.accepted_at = NullTime
                                      /\ i.expires_at <= last.at

\* C8 as stated: every acceptInvitation call with the token of an
\* invitation whose expires_at has passed returns 'Invalid or expired
\* invitation', whoever makes it.
C8_ExpiredTokenAlwaysInvalid ==
    last.op = "acceptInvitation" =>
        \A i \in project_invitations :
           (i.id = last.id /\ i.expires_at <= last.at) => last.err = ErrInvalidInvitation

----------------------------------------------------------------------------
(* src/lib/firebase.ts: inviteTeamMember on Firestore.  The collection     *)
(* project_invitations is the variable of that name; a document is a       *)
(* record of the fields addDoc is given, and its id stands for its token.  *)
(* No security rules are part of the repository.                           *)

\* where(field, '==', null): Firestore matches the documents that have the
\* field with the value null; a document without the field does not match
FirestoreIsNull(d, field) == field \in DOMAIN d /\ d[field] = NullTime

\* invitationData, with the id of the document added
InvitationData(id, pid, email, role, by, t) ==
    [id |-> id, project_id |-> pid, email |-> email, role |-> role, invited_by |-> by,
     expires_at |-> t + InviteTtlDays, created_at |-> t]

\* inviteTeamMember: getCurrentUser
firebase_inviteTeamMember(u, pid, email, role) ==
    LET resp == [NoResp EXCEPT !.at = now,
                 !.op = "inviteTeamMember", !.caller = u, !.project = pid, !.email = email]
    IN  /\ FreeSlots # {}
        /\ UNCHANGED <<dbVars, now>>
        /\ IF u = NoUser
           THEN /\ last' = [resp EXCEPT !.err = ErrNotAuthenticated]
                /\ UNCHANGED calls
           ELSE /\ calls' = [calls EXCEPT ![NewSlot] =
                                [NoCall EXCEPT !.op = "inviteTeamMember", !.at = now,
                                               !.pc = "getDocs", !.caller = u,
                                               !.project = pid, !.email = email,
                                               !.role = role]]
                /\ UNCHANGED last

\* inviteTeamMember: getDocs(existingInviteQuery), then addDoc, then
\* logActivity, which catches its own errors, and the return
firebase_inviteTeamMember_step(k) ==
    LET c == calls[k]
        existingInviteSnapshot == {d \in project_invitations :
                                     /\ d.project_id = c.project
                                     /\ d.email = c.email
                                     /\ FirestoreIsNull(d, "accepted_at")}
        doc == InvitationData(FreshId(project_invitations, MaxInvitations), c.project,
                              c.email, c.role, c.caller, now)
        resp == [NoResp EXCEPT !.at = c.at,
                 !.op = "inviteTeamMember", !.caller = c.caller, !.project = c.project,
                 !.email = c.email]
    IN  /\ c.op = "inviteTeamMember"
        /\ UNCHANGED <<projects, articles, team_members, now>>
        /\ IF c.pc = "getDocs"
           THEN /\ UNCHANGED project_invitations
                /\ IF existingInviteSnapshot # {}
                   THEN /\ last' = [resp EXCEPT !.err = ErrAlreadyInvited]
                        /\ calls' = [calls EXCEPT ![k] = NoCall]
                   ELSE /\ calls' = [calls EXCEPT ![k].pc = "addDoc"]
                        /\ UNCHANGED last
           ELSE IF c.pc = "addDoc"
           THEN /\ doc.id # NoId
                /\ project_invitations' = project_invitations \cup {doc}
                /\ calls' = [calls EXCEPT ![k].pc = "logActivity", ![k].id = doc.id]
                /\ UNCHANGED last
           ELSE /\ UNCHANGED project_invitations
                /\ calls' = [calls EXCEPT ![k] = NoCall]
                /\ last' = [resp EXCEPT !.data = TRUE, !.id = c.id]

----------------------------------------------------------------------------
(* SpecFirebase: u1 and u2 invite e3 to projects 1 and 2 from up to        *)
(* MaxFirebaseCalls calls at a time; the collection starts empty.          *)

InitFirebase ==
    /\ InitEditor
    /\ InitLogs
    /\ InitStore
    /\ InitApp
    /\ userProfile = 0
    /\ projects = SeedProjects
    /\ team_members = SeedFixedMembers
    /\ articles = {}
    /\ project_invitations = {}
    /\ now = InviteTtlDays - 1
    /\ calls = [k \in 1..MaxFirebaseCalls |-> NoCall]
    /\ last = NoResp

NextFirebase ==
    \/ \E u \in {NoUser, "u1", "u2"}, pid \in SeedProjectIds :
          firebase_inviteTeamMember(u, pid, "e3", "editor") /\ UNCHANGED otherVars
    \/ \E k \in Slots : firebase_inviteTeamMember_step(k) /\ UNCHANGED otherVars

SpecFirebase == InitFirebase /\ [][NextFirebase]_vars

\* C9: at most one invitation that is unaccepted and unexpired exists for
\* a project and an e-mail address.
C9_AtMostOnePendingInvitation ==
    \A i, j \in project_invitations :
       ( /\ i.project_id = j.project_id
         /\ i.email = j.email
         /\ i.expires_at > now
         /\ j.expires_at > now
         /\ "accepted_at" \in DOMAIN i => i.accepted_at = NullTime
         /\ "accepted_at" \in DOMAIN j => j.accepted_at = NullTime )
       => i = j

----------------------------------------------------------------------------
(* src/components/editor/ArticleEditor.tsx.  The component's state is the  *)
(* editor variables; a handler that is at an await is a task in `tasks`,   *)
(* with the values its closure captured, and resumes in a _step action     *)
(* with whatever the awaited SDK function answers.  The Supabase editor    *)
(* has the same handlers without loadArticles.  The list of loaded         *)
(* articles and the panel toggles are not modelled.                        *)

NoProfile == -1
UsageLimit == 1

Titles == {"", " ", "t"}

\* title.trim(), without the white space around " t "
Trim_identity(t) == t

\* title.trim()
Trim(t) == IF t = " " THEN "" ELSE IF t = " t " THEN "t" ELSE t

EditorProjects == {1, 2}
EditorArticles == {1}

MsgTitleFirst == "Please enter a title first"
MsgNoPermission == "You do not have permission to edit this project"
MsgSignIn == "Please sign in to use AI features"
MsgLimit == "You have reached your AI generation limit. Please upgrade to continue."
MsgGenerated == "Content generated successfully!"
MsgRateLimit == "Gemini API rate limit exceeded. Please wait a few minutes before trying again."
MsgApiKey == "Gemini API configuration error. Please check your settings."
MsgGenerateFailed == "Failed to generate content. Please try again."
MsgTitleAndContent == "Please enter a title and content"
MsgNoProject == "No project selected"
MsgUpdated == "Article updated successfully!"
MsgSaved == "Article saved successfully!"
MsgSaveFailed == "Failed to save article. Please try again."
MsgLoadFailed == "Failed to load articles"
MsgLoaded == "Loaded article"
MsgNewArticle == "Started new article"

\* showNotification(message, type)
showNotification(msg, type) == notification' = [msg |-> msg, type |-> type]

\* a handler at an await: the call it awaits (pc) and what the handler has
\* captured, the project, the article id and the title it passed to the call.
\* stale is history, not program state: the editor has gone to another
\* article or to a blank draft since the handler made the call.
Task(op, pc, pid, articleId, t) ==
    [op |-> op, pc |-> pc, project |-> pid, articleId |-> articleId, title |-> t,
     stale |-> FALSE]

Await(task) == tasks (+) SetToBag({task})

Resume(task) == tasks (-) SetToBag({task})

TasksAt(op) == {t \in BagToSet(tasks) : t.op = op}

\* the title input's onChange
setTitle(t) ==
    /\ title' = t
    /\ UNCHANGED <<apiVars, html, currentProject, currentArticleId, canEdit, isSaving,
                   isGenerating, userProfile, notification, tasks>>

\* useEditor: the editor, null in the first render, is created with
\* content '', the empty document
useEditor ==
    /\ html = ""
    /\ html' = "<p></p>"
    /\ UNCHANGED <<apiVars, title, currentProject, currentArticleId, canEdit, isSaving,
                   isGenerating, userProfile, notification, tasks>>

\* typing in the editor, which is editable only while canEdit
editContent ==
    /\ canEdit
    /\ html # ""
    /\ html' = "<p>c</p>"
    /\ UNCHANGED <<apiVars, title, currentProject, currentArticleId, canEdit, isSaving,
                   isGenerating, userProfile, notification, tasks>>

\* projectStore.setCurrentProject, which also empties the store's articles,
\* and the editor's effect on [currentProject] when the project has changed:
\* checkPermissions() and loadArticles() both run up to their await
setCurrentProject(p) ==
    /\ currentProject' = p
    /\ storeArticles' = {}
    /\ IF p = NoId \/ p = currentProject
       THEN UNCHANGED tasks
       ELSE /\ BagCardinality(tasks) < MaxTasks
            /\ tasks' = Await(Task("useEffect", "checkPermissions+loadArticles", p, NoId, ""))
    /\ UNCHANGED <<apiVars, title, html, currentArticleId, canEdit, isSaving, isGenerating,
                   userProfile, notification, storeLoading>>

\* checkPermissions after its await: setCanEdit(canEditProject)
checkPermissions_step(task, canEditProject) ==
    /\ task.pc \in {"checkPermissions+loadArticles", "checkPermissions"}
    /\ canEdit' = canEditProject
    /\ tasks' = IF task.pc = "checkPermissions"
                THEN Resume(task)
                ELSE Resume(task) (+) SetToBag({[task EXCEPT !.pc = "loadArticles"]})
    /\ UNCHANGED <<apiVars, title, html, currentProject, currentArticleId, isSaving,
                   isGenerating, userProfile, notification>>

\* loadArticles of the effect after its await
loadArticles_step(task, ok) ==
    /\ task.pc \in {"checkPermissions+loadArticles", "loadArticles"}
    /\ IF ok THEN UNCHANGED notification ELSE showNotification(MsgLoadFailed, "error")
    /\ tasks' = IF task.pc = "loadArticles"
                THEN Resume(task)
                ELSE Resume(task) (+) SetToBag({[task EXCEPT !.pc = "checkPermissions"]})
    /\ UNCHANGED <<apiVars, title, html, currentProject, currentArticleId, canEdit, isSaving,
                   isGenerating, userProfile>>

GenerateOutcomes == {"content", "rate limit", "API key", "other"}

\* handleGenerateContent up to its first await
handleGenerateContent ==
    /\ UNCHANGED <<apiVars, title, html, currentProject, currentArticleId, canEdit, isSaving,
                   userProfile>>
    /\ IF Trim(title) = ""
       THEN showNotification(MsgTitleFirst, "error") /\ UNCHANGED <<isGenerating, tasks>>
       ELSE IF ~ canEdit
       THEN showNotification(MsgNoPermission, "error") /\ UNCHANGED <<isGenerating, tasks>>
       ELSE IF userProfile = NoProfile
       THEN showNotification(MsgSignIn, "error") /\ UNCHANGED <<isGenerating, tasks>>
       ELSE IF userProfile >= UsageLimit
       THEN showNotification(MsgLimit, "error") /\ UNCHANGED <<isGenerating, tasks>>
       ELSE /\ BagCardinality(tasks) < MaxTasks
            /\ isGenerating' = TRUE
            /\ tasks' = Await(Task("handleGenerateContent", "generateContent",
                                   currentProject, NoId, title))
            /\ UNCHANGED notification

\* handleGenerateContent after `await generateContent(...)`, then after
\* `await incrementUsage()`, which sets the profile the back end returns and
\* swallows its own errors
handleGenerateContent_step(task, outcome, data) ==
    /\ task.op = "handleGenerateContent"
    /\ UNCHANGED <<apiVars, title, currentProject, currentArticleId, canEdit, isSaving>>
    /\ IF task.pc = "generateContent"
       THEN IF outcome = "content"
            THEN /\ html' = IF html = "" THEN "" ELSE "<p>c</p>"
                 /\ tasks' = Resume(task) (+) SetToBag({[task EXCEPT !.pc = "incrementUsage"]})
                 /\ UNCHANGED <<isGenerating, userProfile, notification>>
            ELSE /\ showNotification(CASE outcome = "rate limit" -> MsgRateLimit
                                       [] outcome = "API key" -> MsgApiKey
                                       [] OTHER -> MsgGenerateFailed, "error")
                 /\ isGenerating' = FALSE
                 /\ tasks' = Resume(task)
                 /\ UNCHANGED <<html, userProfile>>
       ELSE /\ IF data /\ userProfile # NoProfile /\ userProfile < MaxUsage
               THEN userProfile' = userProfile + 1
               ELSE UNCHANGED userProfile
            /\ showNotification(MsgGenerated, "success")
            /\ isGenerating' = FALSE
            /\ tasks' = Resume(task)
            /\ UNCHANGED html

\* handleSave without the canEdit check
handleSave_noGate ==
    /\ UNCHANGED <<apiVars, title, html, currentProject, currentArticleId, canEdit,
                   isGenerating, userProfile>>
    /\ IF Trim(title) = "" \/ html = ""
       THEN showNotification(MsgTitleAndContent, "error") /\ UNCHANGED <<isSaving, tasks>>
       ELSE IF currentProject = NoId
       THEN showNotification(MsgNoProject, "error") /\ UNCHANGED <<isSaving, tasks>>
       ELSE /\ BagCardinality(tasks) < MaxTasks
            /\ isSaving' = TRUE
            /\ tasks' = Await(Task("handleSave",
                                   IF currentArticleId # NoId THEN "updateArticle"
                                                              ELSE "createArticle",
                                   currentProject, currentArticleId, Trim(title)))
            /\ UNCHANGED notification

\* handleSave up to its first await: updateArticle(currentArticleId, ...) or
\* createArticle(currentProject.id, ...)
handleSave ==
    /\ UNCHANGED <<apiVars, title, html, currentProject, currentArticleId, canEdit,
                   isGenerating, userProfile>>
    /\ IF Trim(title) = "" \/ html = ""
       THEN showNotification(MsgTitleAndContent, "error") /\ UNCHANGED <<isSaving, tasks>>
       ELSE IF currentProject = NoId
       THEN showNotification(MsgNoProject, "error") /\ UNCHANGED <<isSaving, tasks>>
       ELSE IF ~ canEdit
       THEN showNotification(MsgNoPermission, "error") /\ UNCHANGED <<isSaving, tasks>>
       ELSE /\ BagCardinality(tasks) < MaxTasks
            /\ isSaving' = TRUE
            /\ tasks' = Await(Task("handleSave",
                                   IF currentArticleId # NoId THEN "updateArticle"
                                                              ELSE "createArticle",
                                   currentProject, currentArticleId, Trim(title)))
            /\ UNCHANGED notification

\* handleSave_step without the `finally` after a failed save
handleSave_step_noFinally(task, ok, id) ==
    /\ task.op = "handleSave"
    /\ UNCHANGED <<apiVars, title, html, currentProject, canEdit, isGenerating, userProfile>>
    /\ IF task.pc = "loadArticles"
       THEN /\ IF ok THEN UNCHANGED notification
                     ELSE showNotification(MsgLoadFailed, "error")
            /\ isSaving' = FALSE
            /\ tasks' = Resume(task)
            /\ UNCHANGED currentArticleId
       ELSE IF ~ ok
       THEN /\ showNotification(MsgSaveFailed, "error")
            /\ tasks' = Resume(task)
            /\ UNCHANGED <<currentArticleId, isSaving>>
       ELSE /\ IF task.pc = "createArticle"
               THEN /\ currentArticleId' = IF id # NoId THEN id ELSE currentArticleId
                    /\ showNotification(MsgSaved, "success")
               ELSE /\ UNCHANGED currentArticleId
                    /\ showNotification(MsgUpdated, "success")
            /\ tasks' = Resume(task) (+) SetToBag({[task EXCEPT !.pc = "loadArticles",
                                                                 !.stale = FALSE]})
            /\ UNCHANGED isSaving

\* handleSave after `await updateArticle(...)` or `await createArticle(...)`,
\* which answer an error or (id being the article created) data, and then
\* after `await loadArticles()`
handleSave_step(task, ok, id) ==
    /\ task.op = "handleSave"
    /\ UNCHANGED <<apiVars, title, html, currentProject, canEdit, isGenerating, userProfile>>
    /\ IF task.pc = "loadArticles"
       THEN /\ IF ok THEN UNCHANGED notification
                     ELSE showNotification(MsgLoadFailed, "error")
            /\ isSaving' = FALSE
            /\ tasks' = Resume(task)
            /\ UNCHANGED currentArticleId
       ELSE IF ~ ok
       THEN /\ showNotification(MsgSaveFailed, "error")
            /\ isSaving' = FALSE
            /\ tasks' = Resume(task)
            /\ UNCHANGED currentArticleId
       ELSE /\ IF task.pc = "createArticle"
               THEN /\ currentArticleId' = IF id # NoId THEN id ELSE currentArticleId
                    /\ showNotification(MsgSaved, "success")
               ELSE /\ UNCHANGED currentArticleId
                    /\ showNotification(MsgUpdated, "success")
            /\ tasks' = Resume(task) (+) SetToBag({[task EXCEPT !.pc = "loadArticles",
                                                                 !.stale = FALSE]})
            /\ UNCHANGED isSaving

\* the handlers at `await createArticle(...)` made their call for what the
\* editor showed before it went to another article or to a blank draft
Superseded(bag) ==
    LET mark(t) == IF t.op = "handleSave" /\ t.pc = "createArticle"
                   THEN [t EXCEPT !.stale = TRUE] ELSE t
    IN  [m \in {mark(t) : t \in BagToSet(bag)} |->
            LET from == {t \in BagToSet(bag) : mark(t) = m}
            IN  IF Cardinality(from) = 1
                THEN bag[CHOOSE t \in from : TRUE]
                ELSE bag[m] + bag[[m EXCEPT !.stale = FALSE]]]

\* handleLoadArticle(article), for an article of the list
handleLoadArticle(id) ==
    /\ title' = "t"
    /\ currentArticleId' = id
    /\ html' = IF html = "" THEN "" ELSE "<p>c</p>"
    /\ showNotification(MsgLoaded, "success")
    /\ tasks' = Superseded(tasks)
    /\ UNCHANGED <<apiVars, currentProject, canEdit, isSaving, isGenerating, userProfile>>

handleNewArticle ==
    /\ title' = ""
    /\ currentArticleId' = NoId
    /\ html' = IF html = "" THEN "" ELSE "<p></p>"
    /\ showNotification(MsgNewArticle, "success")
    /\ tasks' = Superseded(tasks)
    /\ UNCHANGED <<apiVars, currentProject, canEdit, isSaving, isGenerating, userProfile>>

----------------------------------------------------------------------------
(* SpecEditor: one editor, opened by a user who is signed in with a        *)
(* profile or has none, working on projects 1 and 2.                       *)

InitEditorSpec ==
    /\ InitEditor
    /\ InitLogs
    /\ InitStore
    /\ InitApp
    /\ userProfile \in {NoProfile, 0}
    /\ projects = SeedProjects
    /\ team_members = SeedFixedMembers
    /\ articles = {}
    /\ project_invitations = {}
    /\ now = InviteTtlDays - 1
    /\ calls = [k \in 1..MaxCalls |-> NoCall]
    /\ last = NoResp

NextEditor ==
    \/ \E t \in Titles : setTitle(t) /\ UNCHANGED editorFrame
    \/ editContent /\ UNCHANGED editorFrame
    \/ \E p \in EditorProjects \cup {NoId} : setCurrentProject(p) /\ UNCHANGED <<logVars, appVars>>
    \/ \E task \in TasksAt("useEffect"), b \in BOOLEAN : checkPermissions_step(task, b) /\ UNCHANGED editorFrame
    \/ \E task \in TasksAt("useEffect"), ok \in BOOLEAN : loadArticles_step(task, ok) /\ UNCHANGED editorFrame
    \/ handleGenerateContent /\ UNCHANGED editorFrame
    \/ \E task \in TasksAt("handleGenerateContent"), o \in GenerateOutcomes, d \in BOOLEAN :
          handleGenerateContent_step(task, o, d) /\ UNCHANGED editorFrame
    \/ handleSave /\ UNCHANGED editorFrame
    \/ \E task \in TasksAt("handleSave"), ok \in BOOLEAN, id \in EditorArticles \cup {NoId} :
          handleSave_step(task, ok, id) /\ UNCHANGED editorFrame
    \/ \E id \in EditorArticles : handleLoadArticle(id) /\ UNCHANGED editorFrame
    \/ handleNewArticle /\ UNCHANGED editorFrame

SpecEditor == InitEditorSpec /\ [][NextEditor]_vars

----------------------------------------------------------------------------
(* Claims checked under SpecEditor *)

\* a step whose only effect is an error notification: no SDK function is
\* called (no handler comes to an await) and no other state changes
OnlyErrorNotification ==
    /\ notification'.type = "error"
    /\ UNCHANGED <<apiVars, title, html, currentProject, currentArticleId, canEdit, isSaving,
                   isGenerating, userProfile, tasks>>

\* C1: when handleSave or handleGenerateContent is invoked while canEdit is
\* false, whatever the title, the content and the project, the invocation
\* comes to no await, so it calls none of createArticle, updateArticle,
\* generateContent and incrementUsage, and it changes nothing but the
\* notification, which is an error.
C1_NoCallsWithoutCanEdit ==
    [][ (~ canEdit /\ (handleSave \/ handleGenerateContent)) => OnlyErrorNotification ]_vars

\* C1 witness: with a title, content and a project chosen, canEdit is false
\* and the handler invoked last has shown the permission error.
C1_Witness ==
    /\ ~ canEdit
    /\ Trim(title) # ""
    /\ html = "<p>c</p>"
    /\ currentProject # NoId
    /\ tasks = EmptyBag
    /\ notification = [msg |-> MsgNoPermission, type |-> "error"]

----------------------------------------------------------------------------
(* SpecMembers: the functions that write team_members, on the tables of    *)
(* SpecInvitations: u2, who may be a member of project 1 with any role and *)
(* status, holds an invitation to it.                                      *)

NextMembers ==
    \/ \E u \in Callers : createProject(u) /\ UNCHANGED otherVars
    \/ \E u \in Callers, token \in 1..MaxInvitations :
          acceptInvitation(u, token) /\ UNCHANGED otherVars
    \/ \E k \in Slots : acceptInvitation_step(k) /\ UNCHANGED otherVars
    \/ \E u \in Callers, pid \in ManagedProjects, t \in {"u1", "u2"} :
          removeTeamMember(u, pid, t) /\ UNCHANGED otherVars
    \/ \E u \in Callers, pid \in ManagedProjects, t \in {"u1", "u2"}, r \in InvitationRoles :
          updateTeamMemberRole(u, pid, t, r) /\ UNCHANGED otherVars

SpecMembers == InitInvitations /\ [][NextMembers]_vars

----------------------------------------------------------------------------
(* Claims checked under SpecMembers *)

\* no two rows of tm have the same user_id and project_id
OneRowPerMembership(tm) ==
    \A r1, r2 \in tm : (r1.user_id = r2.user_id /\ r1.project_id = r2.project_id) => r1 = r2

\* uid has a row for project pid, whatever its status
HasRow(tm, uid, pid) == \E r \in tm : r.user_id = uid /\ r.project_id = pid

\* C11: team_members never holds two rows with the same user_id and
\* project_id; a row is added only for a user and project that had none;
\* and when acceptInvitation comes to its INSERT for a user who already has
\* a row in the project, active or inactive, the table is left unchanged
\* and the call returns an error and no data.
C11_OneRowPerUserAndProject ==
    [][
        /\ OneRowPerMembership(team_members)
        /\ OneRowPerMembership(team_members')
        /\ \A r \in team_members' \ team_members :
              HasRow(team_members, r.user_id, r.project_id) =>
                 \E old \in team_members \ team_members' :
                    old.user_id = r.user_id /\ old.project_id = r.project_id
        /\ \A k \in Slots :
              ( /\ acceptInvitation_step(k)
                /\ calls[k].pc = "insertMember"
                /\ HasRow(team_members, calls[k].caller, calls[k].project) )
              => /\ team_members' = team_members
                 /\ last'.op = "acceptInvitation"
                 /\ last'.caller = calls[k].caller
                 /\ last'.err # ""
                 /\ ~ last'.data
    ]_vars

\* C11 witness: u2, an active admin of project 1, has presented the token
\* of the invitation of project 1 for u2's own address and the INSERT has
\* been refused by the unique constraint; u2 still has one row.
C11_Witness ==
    /\ last.op = "acceptInvitation"
    /\ last.caller = "u2"
    /\ last.project = 1
    /\ last.err = ErrUnique
    /\ Cardinality({r \in team_members : r.user_id = "u2" /\ r.project_id = 1}) = 1

----------------------------------------------------------------------------
(* SpecRoles: the functions that set a role, on the tables of              *)
(* SpecInvitations.                                                        *)

\* RoleArgs with 'owner' admitted
RoleArgs_withOwner == MemberRoles

\* the type of the `role` parameter of inviteTeamMember and
\* updateTeamMemberRole: 'admin' | 'editor' | 'viewer'
RoleArgs == {"admin", "editor", "viewer"}

NextRoles ==
    \/ \E u \in Callers, pid \in ManagedProjects, t \in {"u1", "u2"}, r \in RoleArgs :
          updateTeamMemberRole(u, pid, t, r) /\ UNCHANGED otherVars
    \/ \E u \in Callers, pid \in ManagedProjects, e \in InviteEmails, r \in RoleArgs :
          inviteTeamMember(u, pid, e, r) /\ UNCHANGED otherVars
    \/ \E k \in Slots : inviteTeamMember_step(k) /\ UNCHANGED otherVars
    \/ \E u \in Callers, token \in 1..MaxInvitations :
          acceptInvitation(u, token) /\ UNCHANGED otherVars
    \/ \E k \in Slots : acceptInvitation_step(k) /\ UNCHANGED otherVars

SpecRoles == InitInvitations /\ [][NextRoles]_vars

----------------------------------------------------------------------------
(* Claims checked under SpecRoles *)

\* C12: every role in team_members is owner, admin, editor or viewer, every
\* role in project_invitations is admin, editor or viewer, and a
\* team_members row with role owner belongs to the user who created the
\* row's project.
C12_RolesWithinEnums ==
    /\ \A r \in team_members : r.role \in {"owner", "admin", "editor", "viewer"}
    /\ \A i \in project_invitations : i.role \in {"admin", "editor", "viewer"}
    /\ \A r \in team_members : r.role = "owner" =>
          \E p \in projects : p.id = r.project_id /\ p.owner_id = r.user_id

\* C12 witness: u2, an admin of project 1, has just changed a role in
\* project 1, and the creator u1 is no longer its owner but an admin.
C12_Witness ==
    /\ last.op = "updateTeamMemberRole"
    /\ last.caller = "u2"
    /\ last.data
    /\ ActiveWithRole(team_members, "u2", 1, {"admin"})
    /\ ActiveWithRole(team_members, "u1", 1, {"admin"})

\* C13: whenever the SDK call a handler of the editor was awaiting fails
\* (getProjectArticles in loadArticles, updateArticle or createArticle and
\* the reload in handleSave, generateContent and incrementUsageCount in
\* handleGenerateContent), the handler goes on to show an error
\* notification.
C13_FailedCallsShowAnError ==
    [][
        /\ \A task \in TasksAt("useEffect") :
              loadArticles_step(task, FALSE) => notification'.type = "error"
        /\ \A task \in TasksAt("handleSave"), id \in EditorArticles \cup {NoId} :
              handleSave_step(task, FALSE, id) => notification'.type = "error"
        /\ \A task \in TasksAt("handleGenerateContent"), o \in GenerateOutcomes :
              /\ (task.pc = "generateContent" /\ o # "content"
                    /\ handleGenerateContent_step(task, o, FALSE))
                 => notification'.type = "error"
              /\ (task.pc = "incrementUsage" /\ handleGenerateContent_step(task, o, FALSE))
                 => notification'.type = "error"
    ]_vars

----------------------------------------------------------------------------
(* The activity log.  After a main statement that returned data and no     *)
(* error, each writing function of src/lib/supabase.ts awaits              *)
(* rpc('log_activity') inside a try/catch of its own and then returns the  *)
(* main statement's { data, error }.  activity_logs is written by that     *)
(* call alone and read by none of the functions modelled, so the           *)
(* specifications above leave it out; SpecActivity puts it back.           *)

\* the two versions of log_activity: the one without an exception handler,
\* which runs with the caller's rights, and the SECURITY DEFINER one with
\* EXCEPTION WHEN OTHERS THEN NULL
LogVersions == {"plain", "definer"}

\* how a call can fail: the request does not reach the database, or the
\* INSERT raises an error
LogFailures == {"none", "request", "insert"}

\* "Authenticated users can create activity logs"
ActivityLogsCreatePolicy(uid, row) == uid # NoUser /\ row.user_id = uid

\* rpc('log_activity'): the table afterwards and the error the call ends
\* with, "" when it ends with none
log_activity(logs, version, uid, pid, action, failure) ==
    LET row == [project_id |-> pid, user_id |-> uid, action |-> action]
        raised == \/ failure = "insert"
                  \/ version = "plain" /\ ~ ActivityLogsCreatePolicy(uid, row)
    IN  IF failure = "request" THEN [table |-> logs, error |-> "request failed"]
        ELSE IF raised /\ version = "plain" THEN [table |-> logs, error |-> ErrRls]
        ELSE IF raised THEN [table |-> logs, error |-> ""]
        ELSE [table |-> logs \cup {row}, error |-> ""]

\* LogActivityIfWritten without the test of data and error
LogActivityIfWritten_always(pid, action) ==
    \E version \in LogVersions, failure \in LogFailures :
       LET r == log_activity(activity_logs, version, last'.caller, pid, action, failure)
       IN  /\ activity_logs' = r.table
           /\ logError' = r.error

\* if (data && !error) { try { await supabase.rpc('log_activity', ...) }
\* catch (logError) { console.warn(...) } }, for the response last' of the
\* main statement
LogActivityIfWritten(pid, action) ==
    IF last'.data /\ last'.err = ""
    THEN \E version \in LogVersions, failure \in LogFailures :
            LET r == log_activity(activity_logs, version, last'.caller, pid, action, failure)
            IN  /\ activity_logs' = r.table
                /\ logError' = r.error
    ELSE /\ UNCHANGED activity_logs
         /\ logError' = ""

----------------------------------------------------------------------------
(* SpecActivity: the writing functions with their log_activity call, for   *)
(* the team of project 1 and the articles of projects 1 and 2.             *)

\* the callers: nobody, the owner of project 1, and a stranger to it
ActivityCallers == {NoUser, "u1", "u3"}

\* the member whose role and status u1 changes
ActivityTargets == {"u2"}

NextActivity ==
    \/ \E u \in ActivityCallers :
          createProject(u) /\ LogActivityIfWritten(last'.id, "created") /\ UNCHANGED <<uiVars, appVars, storeVars>>
    \/ \E u \in ActivityCallers, pid \in SeedProjectIds, doc \in Docs :
          createArticle(u, pid, doc) /\ LogActivityIfWritten(last'.project, "created")
             /\ UNCHANGED <<uiVars, appVars, storeVars>>
    \/ \E u \in ActivityCallers, id \in 1..MaxArticles, doc \in Docs :
          updateArticle(u, id, doc) /\ LogActivityIfWritten(last'.project, "updated")
             /\ UNCHANGED <<uiVars, appVars, storeVars>>
    \/ \E u \in ActivityCallers, pid \in ManagedProjects, t \in ActivityTargets :
          removeTeamMember(u, pid, t) /\ LogActivityIfWritten(pid, "removed")
             /\ UNCHANGED <<uiVars, appVars, storeVars>>
    \/ \E u \in ActivityCallers, pid \in ManagedProjects, t \in ActivityTargets, r \in RoleArgs :
          updateTeamMemberRole(u, pid, t, r) /\ LogActivityIfWritten(pid, "role_updated")
             /\ UNCHANGED <<uiVars, appVars, storeVars>>
    \/ \E u \in ActivityCallers, pid \in ManagedProjects, e \in InviteEmails :
          inviteTeamMember(u, pid, e, "editor") /\ UNCHANGED activity_logs /\ logError' = ""
             /\ UNCHANGED <<uiVars, appVars, storeVars>>
    \/ \E k \in Slots :
          inviteTeamMember_step(k) /\ LogActivityIfWritten(calls[k].project, "invited")
             /\ UNCHANGED <<uiVars, appVars, storeVars>>

SpecActivity == Init /\ [][NextActivity]_vars

----------------------------------------------------------------------------
(* Claims checked under SpecActivity *)

\* C14: when the log_activity call of createProject, createArticle,
\* updateArticle, inviteTeamMember, removeTeamMember or updateTeamMemberRole
\* fails, nothing is logged, the function still returns its data and no
\* error, and the row it wrote is in its table as it wrote it.
C14_LogFailureKeepsTheWrite ==
    [][ logError' # "" =>
           /\ last'.data
           /\ last'.err = ""
           /\ activity_logs' = activity_logs
           /\ last'.op = "createProject" => \E p \in projects' : p.id = last'.id
           /\ \A u \in ActivityCallers, pid \in SeedProjectIds, doc \in Docs :
                 createArticle(u, pid, doc) =>
                    [id |-> last'.id, project_id |-> pid, content |-> doc] \in articles'
           /\ \A u \in ActivityCallers, id \in 1..MaxArticles, doc \in Docs :
                 updateArticle(u, id, doc) =>
                    \E a \in articles' : a.id = id /\ a.content = doc
           /\ \A u \in ActivityCallers, pid \in ManagedProjects, t \in ActivityTargets :
                 removeTeamMember(u, pid, t) =>
                    \E r \in team_members' :
                       r.user_id = t /\ r.project_id = pid /\ r.status = "inactive"
           /\ \A u \in ActivityCallers, pid \in ManagedProjects, t \in ActivityTargets,
                 role \in RoleArgs :
                 updateTeamMemberRole(u, pid, t, role) =>
                    \E r \in team_members' :
                       r.user_id = t /\ r.project_id = pid /\ r.role = role
           /\ last'.op = "inviteTeamMember" =>
                 \E i \in project_invitations' : i.id = last'.id
    ]_vars

\* C14 witness: the log_activity call of u1's createArticle has failed,
\* nothing was logged, and the article is in the table and was returned.
C14_Witness ==
    /\ logError # ""
    /\ last.op = "createArticle"
    /\ last.caller = "u1"
    /\ last.data
    /\ last.err = ""
    /\ \E a \in articles : a.id = last.id /\ a.project_id = last.project
    /\ activity_logs = {}

----------------------------------------------------------------------------
(* src/App.tsx and src/store/authStore.ts.  App renders from the           *)
(* authStore's user and initialized and from currentView, which the hash   *)
(* router sets.  A function of the store that is at an await, and an       *)
(* onAuthStateChange callback that is awaiting getUserProfile, is a task   *)
(* in authTasks with the user it captured.  The field `stale` of a task is *)
(* history kept for C20 and read by no action: it is TRUE for a callback   *)
(* that was awaiting when signOut completed, until the next signIn, signUp *)
(* or auth event.                                                          *)

MaxAuthTasks == 2

\* the accounts that sign in, and what getUserProfile returns
AuthUsers == {"u1"}
Profiles == {NoProfile, 0}

Hashes == {"", "#", "#/", "#pricing", "#/dashboard", "#/dashboards", "#/project/", "#/project/1",
           "#/project", "#/brief-generator", "#/team", "#/team/1", "#/settings", "#/pricing",
           "#/support", "#/Support", "x#/team"}

\* hash.startsWith(prefix)
StartsWith(h, prefix) == Len(h) >= Len(prefix) /\ SubSeq(h, 1, Len(prefix)) = prefix

\* handleHashChange comparing with === instead of startsWith
handleHashChange_exact(h) ==
    IF h = "#/dashboard" THEN "dashboard"
    ELSE IF h = "#/project/" THEN "editor"
    ELSE IF h = "#/brief-generator" THEN "brief-generator"
    ELSE IF h = "#/team" THEN "team"
    ELSE IF h = "#/settings" THEN "settings"
    ELSE IF h = "#/pricing" THEN "pricing"
    ELSE IF h = "#/support" THEN "support"
    ELSE "landing"

\* handleHashChange: the view it sets for the hash h
handleHashChange(h) ==
    IF StartsWith(h, "#/dashboard") THEN "dashboard"
    ELSE IF StartsWith(h, "#/project/") THEN "editor"
    ELSE IF StartsWith(h, "#/brief-generator") THEN "brief-generator"
    ELSE IF StartsWith(h, "#/team") THEN "team"
    ELSE IF StartsWith(h, "#/settings") THEN "settings"
    ELSE IF StartsWith(h, "#/pricing") THEN "pricing"
    ELSE IF StartsWith(h, "#/support") THEN "support"
    ELSE "landing"

\* App's switch without the test of user
App_anyUser(init, u, view) ==
    IF ~ init THEN "LoadingSpinner"
    ELSE CASE view = "editor" -> "ArticleEditor"
           [] view = "brief-generator" -> "ContentBriefGenerator"
           [] view = "team" -> "TeamCollaboration"
           [] view = "settings" -> "AccountSettings"
           [] view = "pricing" -> "PricingPage"
           [] view = "support" -> "SupportFAQ"
           [] OTHER -> "Dashboard"

\* App: the component rendered
App(init, u, view) ==
    IF ~ init THEN "LoadingSpinner"
    ELSE IF u # NoUser
    THEN CASE view = "editor" -> "ArticleEditor"
           [] view = "brief-generator" -> "ContentBriefGenerator"
           [] view = "team" -> "TeamCollaboration"
           [] view = "settings" -> "AccountSettings"
           [] view = "pricing" -> "PricingPage"
           [] view = "support" -> "SupportFAQ"
           [] OTHER -> "Dashboard"
    ELSE IF view = "pricing" THEN "PricingPage"
    ELSE IF view = "support" THEN "SupportFAQ"
    ELSE "Landing"

\* what the functions of App and of the authStore leave alone
appFrame == <<apiVars, logVars, storeVars, title, html, currentProject, currentArticleId, canEdit,
              isSaving, isGenerating, notification, tasks>>

AuthTask(op, pc, u) == [op |-> op, pc |-> pc, user |-> u, stale |-> FALSE]

AuthTasksAt(op) == {t \in BagToSet(authTasks) : t.op = op}

\* authTasks with the callbacks that are awaiting marked: stale or not
Marked(bag, stale) ==
    LET mark(t) == IF t.op = "onAuthStateChange" THEN [t EXCEPT !.stale = stale] ELSE t
        S == {mark(t) : t \in BagToSet(bag)}
    IN  [m \in S |-> LET from == {t \in BagToSet(bag) : mark(t) = m}
                     IN  IF Cardinality(from) = 1
                         THEN bag[CHOOSE t \in from : TRUE]
                         ELSE bag[m] + bag[[m EXCEPT !.stale = ~ stale]]]

\* the hashchange event: the address gets the hash h and the listener runs
hashchange(h) ==
    /\ hash' = h
    /\ currentView' = handleHashChange(h)
    /\ UNCHANGED <<appFrame, user, userProfile, initialized, loading, authTasks>>

\* initialize after `await supabase.auth.getUser()`, which gives sessionUser,
\* and after `await getUserProfile()`; it ends with initialized set and the
\* onAuthStateChange listener registered
initialize_step(task, sessionUser, profile) ==
    /\ task.op = "initialize"
    /\ UNCHANGED <<appFrame, loading, currentView, hash>>
    /\ IF task.pc = "getUser" /\ sessionUser # NoUser
       THEN /\ authTasks' = (authTasks (-) SetToBag({task}))
                               (+) SetToBag({AuthTask("initialize", "getUserProfile", sessionUser)})
            /\ UNCHANGED <<user, userProfile, initialized>>
       ELSE IF task.pc = "getUser"
       THEN /\ initialized' = TRUE
            /\ authTasks' = authTasks (-) SetToBag({task})
            /\ UNCHANGED <<user, userProfile>>
       ELSE /\ user' = task.user
            /\ userProfile' = profile
            /\ initialized' = TRUE
            /\ authTasks' = authTasks (-) SetToBag({task})

\* signIn and signUp (fn names which) up to `await supabaseSignIn(...)`; the
\* form is in the AuthModal of the landing page
signIn(fn, u) ==
    /\ App(initialized, user, currentView) = "Landing"
    /\ BagCardinality(authTasks) < MaxAuthTasks
    /\ loading' = TRUE
    /\ authTasks' = Marked(authTasks, FALSE) (+) SetToBag({AuthTask(fn, "auth", u)})
    /\ UNCHANGED <<appFrame, user, userProfile, initialized, currentView, hash>>

\* signIn and signUp after the auth call, which succeeds or not, and, past
\* the setTimeout, after `await getUserProfile()`
signIn_step(task, ok, profile) ==
    /\ task.op \in {"signIn", "signUp"}
    /\ UNCHANGED <<appFrame, initialized, currentView, hash>>
    /\ IF task.pc = "auth" /\ ok
       THEN /\ authTasks' = (authTasks (-) SetToBag({task}))
                               (+) SetToBag({[task EXCEPT !.pc = "getUserProfile"]})
            /\ UNCHANGED <<user, userProfile, loading>>
       ELSE IF task.pc = "auth"
       THEN /\ loading' = FALSE
            /\ authTasks' = authTasks (-) SetToBag({task})
            /\ UNCHANGED <<user, userProfile>>
       ELSE /\ user' = task.user
            /\ userProfile' = profile
            /\ loading' = FALSE
            /\ authTasks' = authTasks (-) SetToBag({task})

\* signOut up to `await supabase.auth.signOut()`; the button is in the views
\* of a signed-in user
signOut ==
    /\ initialized
    /\ user # NoUser
    /\ BagCardinality(authTasks) < MaxAuthTasks
    /\ loading' = TRUE
    /\ authTasks' = authTasks (+) SetToBag({AuthTask("signOut", "auth", NoUser)})
    /\ UNCHANGED <<appFrame, user, userProfile, initialized, currentView, hash>>

\* signOut after its await: set({ user: null, userProfile: null, loading: false })
signOut_step(task) ==
    /\ task.op = "signOut"
    /\ user' = NoUser
    /\ userProfile' = NoProfile
    /\ loading' = FALSE
    /\ authTasks' = Marked(authTasks (-) SetToBag({task}), TRUE)
    /\ UNCHANGED <<appFrame, initialized, currentView, hash>>

\* the onAuthStateChange callback, called with the session of sessionUser or
\* with none, up to `await getUserProfile()`
onAuthStateChange(sessionUser) ==
    /\ initialized
    /\ UNCHANGED <<appFrame, initialized, loading, currentView, hash>>
    /\ IF sessionUser # NoUser
       THEN /\ BagCardinality(authTasks) < MaxAuthTasks
            /\ authTasks' = Marked(authTasks, FALSE)
                               (+) SetToBag({AuthTask("onAuthStateChange", "getUserProfile",
                                                      sessionUser)})
            /\ UNCHANGED <<user, userProfile>>
       ELSE /\ user' = NoUser
            /\ userProfile' = NoProfile
            /\ authTasks' = Marked(authTasks, FALSE)

\* the callback after its await: set({ user: session.user, userProfile: profile })
onAuthStateChange_step(task, profile) ==
    /\ task.op = "onAuthStateChange"
    /\ user' = task.user
    /\ userProfile' = profile
    /\ authTasks' = authTasks (-) SetToBag({task})
    /\ UNCHANGED <<appFrame, initialized, loading, currentView, hash>>

----------------------------------------------------------------------------
(* SpecApp: the page is loaded with any hash; App's effects have run, so   *)
(* the router has set the view for that hash and initialize() is at its    *)
(* first await.                                                            *)

InitAppSpec ==
    /\ InitEditor
    /\ InitLogs
    /\ InitStore
    /\ userProfile = NoProfile
    /\ projects = SeedProjects
    /\ team_members = SeedFixedMembers
    /\ articles = {}
    /\ project_invitations = {}
    /\ now = InviteTtlDays - 1
    /\ calls = [k \in 1..MaxCalls |-> NoCall]
    /\ last = NoResp
    /\ user = NoUser
    /\ initialized = FALSE
    /\ loading = FALSE
    /\ hash \in Hashes
    /\ currentView = handleHashChange(hash)
    /\ authTasks = SetToBag({AuthTask("initialize", "getUser", NoUser)})

NextApp ==
    \/ \E h \in Hashes : hashchange(h)
    \/ \E task \in AuthTasksAt("initialize"), u \in AuthUsers \cup {NoUser}, p \in Profiles :
          initialize_step(task, u, p)
    \/ \E fn \in {"signIn", "signUp"}, u \in AuthUsers : signIn(fn, u)
    \/ \E task \in AuthTasksAt("signIn") \cup AuthTasksAt("signUp"), ok \in BOOLEAN,
          p \in Profiles : signIn_step(task, ok, p)
    \/ signOut
    \/ \E task \in AuthTasksAt("signOut") : signOut_step(task)
    \/ \E u \in AuthUsers \cup {NoUser} : onAuthStateChange(u)
    \/ \E task \in AuthTasksAt("onAuthStateChange"), p \in Profiles :
          onAuthStateChange_step(task, p)

SpecApp == InitAppSpec /\ [][NextApp]_vars

----------------------------------------------------------------------------
(* Claims checked under SpecApp *)

PublicPages == {"Landing", "PricingPage", "SupportFAQ"}

ProtectedViews == {"Dashboard", "ArticleEditor", "ContentBriefGenerator", "TeamCollaboration",
                   "AccountSettings"}

\* C15: while the authStore's user is null, App renders the landing page,
\* the pricing page or the support page, or, until the store is
\* initialized, the loading spinner, whatever the hash is and whatever
\* hash changes and sign-outs came before; Dashboard, ArticleEditor,
\* ContentBriefGenerator, TeamCollaboration and AccountSettings are rendered
\* only when user is not null.
C15_NoProtectedViewWithoutUser ==
    /\ user = NoUser =>
          App(initialized, user, currentView) \in PublicPages \cup {"LoadingSpinner"}
    /\ (user = NoUser /\ initialized) => App(initialized, user, currentView) \in PublicPages
    /\ App(initialized, user, currentView) \in ProtectedViews => user # NoUser

\* C15 witness: a sign-out has completed while the hash names the editor;
\* the view is still 'editor' and App renders the landing page.
C15_Witness ==
    /\ user = NoUser
    /\ initialized
    /\ ~ loading
    /\ \E t \in BagToSet(authTasks) : t.stale
    /\ hash = "#/project/1"
    /\ currentView = "editor"
    /\ App(initialized, user, currentView) = "Landing"

\* C15 as stated: in every state where user is null, App renders the
\* landing page, the pricing page or the support page.
C15_OnlyPublicPagesWithoutUser ==
    user = NoUser => App(initialized, user, currentView) \in PublicPages

\* C18: the view is dashboard, editor, brief-generator, team, settings,
\* pricing or support when the hash starts with '#/dashboard',
\* '#/project/', '#/brief-generator', '#/team', '#/settings', '#/pricing' or
\* '#/support', and landing for every other hash; and a signed-in user
\* whose view is landing is shown the Dashboard.
C18_ViewIsAFunctionOfTheHash ==
    /\ hash \in {"#/dashboard", "#/dashboards"} => currentView = "dashboard"
    /\ hash \in {"#/project/", "#/project/1"} => currentView = "editor"
    /\ hash = "#/brief-generator" => currentView = "brief-generator"
    /\ hash \in {"#/team", "#/team/1"} => currentView = "team"
    /\ hash = "#/settings" => currentView = "settings"
    /\ hash = "#/pricing" => currentView = "pricing"
    /\ hash = "#/support" => currentView = "support"
    /\ hash \in {"", "#", "#/", "#pricing", "#/project", "#/Support", "x#/team"}
          => currentView = "landing"
    /\ currentView \in {"landing", "dashboard", "editor", "brief-generator", "team",
                        "settings", "pricing", "support"}
    /\ (user # NoUser /\ currentView = "landing") =>
          App(initialized, user, currentView) = "Dashboard"

\* C18 witness: a signed-in user is at '#/project', which no prefix
\* matches; the view is landing and the Dashboard is rendered.
C18_Witness ==
    /\ user # NoUser
    /\ hash = "#/project"
    /\ currentView = "landing"
    /\ App(initialized, user, currentView) = "Dashboard"

\* C20: while user and userProfile are null and loading is false after a
\* signOut, an onAuthStateChange callback that was awaiting getUserProfile
\* when the signOut completed leaves user and userProfile null when it
\* resumes.
C20_SignOutIsFinal ==
    [][ \A task \in AuthTasksAt("onAuthStateChange"), p \in Profiles :
           ( /\ task.stale
             /\ user = NoUser
             /\ userProfile = NoProfile
             /\ ~ loading
             /\ onAuthStateChange_step(task, p) )
           => (user' = NoUser /\ userProfile' = NoProfile)
    ]_vars

----------------------------------------------------------------------------
(* SpecEditorLive: the editor from its first render, in which useEditor    *)
(* has not created the editor yet, on project 1 and with titles that have  *)
(* white space around them, with the assumption that an SDK call or an AI  *)
(* call that a handler awaits eventually answers, with data or with an     *)
(* error.                                                                  *)

InitEditorLive ==
    /\ InitLogs
    /\ InitStore
    /\ InitApp
    /\ title = ""
    /\ html = ""
    /\ currentProject = NoId
    /\ currentArticleId = NoId
    /\ canEdit = FALSE
    /\ isSaving = FALSE
    /\ isGenerating = FALSE
    /\ notification = [msg |-> "", type |-> "none"]
    /\ tasks = EmptyBag
    /\ userProfile \in {NoProfile, 0}
    /\ projects = SeedProjects
    /\ team_members = SeedFixedMembers
    /\ articles = {}
    /\ project_invitations = {}
    /\ now = InviteTtlDays - 1
    /\ calls = [k \in 1..MaxCalls |-> NoCall]
    /\ last = NoResp

NextEditorLive ==
    \/ useEditor /\ UNCHANGED editorFrame
    \/ \E t \in {" ", "t", " t "} : setTitle(t) /\ UNCHANGED editorFrame
    \/ editContent /\ UNCHANGED editorFrame
    \/ setCurrentProject(1) /\ UNCHANGED <<logVars, appVars>>
    \/ \E task \in TasksAt("useEffect"), b \in BOOLEAN :
          checkPermissions_step(task, b) /\ UNCHANGED editorFrame
    \/ \E task \in TasksAt("useEffect"), ok \in BOOLEAN :
          loadArticles_step(task, ok) /\ UNCHANGED editorFrame
    \/ handleGenerateContent /\ UNCHANGED editorFrame
    \/ \E task \in TasksAt("handleGenerateContent"), o \in GenerateOutcomes, d \in BOOLEAN :
          handleGenerateContent_step(task, o, d) /\ UNCHANGED editorFrame
    \/ handleSave /\ UNCHANGED editorFrame
    \/ \E task \in TasksAt("handleSave"), ok \in BOOLEAN, id \in EditorArticles \cup {NoId} :
          handleSave_step(task, ok, id) /\ UNCHANGED editorFrame
    \/ \E id \in EditorArticles : handleLoadArticle(id) /\ UNCHANGED editorFrame
    \/ handleNewArticle /\ UNCHANGED editorFrame

SpecEditorLive ==
    /\ InitEditorLive
    /\ [][NextEditorLive]_vars
    /\ WF_vars(\E task \in TasksAt("handleSave"), ok \in BOOLEAN,
                  id \in EditorArticles \cup {NoId} :
                  handleSave_step(task, ok, id) /\ UNCHANGED editorFrame)
    /\ WF_vars(\E task \in TasksAt("handleGenerateContent"), o \in GenerateOutcomes,
                  d \in BOOLEAN :
                  handleGenerateContent_step(task, o, d) /\ UNCHANGED editorFrame)

\* C16: isSaving is true only while a handleSave is at an await and
\* isGenerating only while a handleGenerateContent is; each flag that is
\* true becomes false again, whatever the awaited calls answer; and when
\* createArticle or updateArticle answers with an error, handleSave leaves
\* currentArticleId, the title and the content as they are.
C16_BusyFlagsClear ==
    /\ [](isSaving => TasksAt("handleSave") # {})
    /\ [](isGenerating => TasksAt("handleGenerateContent") # {})
    /\ isSaving ~> ~ isSaving
    /\ isGenerating ~> ~ isGenerating
    /\ [][ \A task \in TasksAt("handleSave"), id \in EditorArticles \cup {NoId} :
              (task.pc # "loadArticles" /\ handleSave_step(task, FALSE, id)) =>
                 /\ UNCHANGED <<currentArticleId, title, html>>
                 /\ notification'.type = "error"
                 /\ ~ isSaving'
       ]_vars

\* C16 witness: an updateArticle has answered with an error; the handler
\* has shown the failure, isSaving is false again and no handler is at an
\* await, and the editor still holds the article, its title and content.
C16_Witness ==
    /\ notification = [msg |-> MsgSaveFailed, type |-> "error"]
    /\ ~ isSaving
    /\ tasks = EmptyBag
    /\ currentArticleId # NoId
    /\ title = "t"
    /\ html = "<p>c</p>"

----------------------------------------------------------------------------
(* Claims about the form validation, checked under SpecEditorLive *)

\* a title that is empty once trimmed
BlankTitle == title \in {"", " "}

\* C17: handleSave comes to no await (no SDK call), leaves isSaving and all
\* else but the notification as they are, and shows 'Please enter a title
\* and content' when the trimmed title is empty or the editor gives no HTML,
\* whatever the project and canEdit; with a title and HTML it does the same
\* with 'No project selected' when no project is chosen, whatever canEdit;
\* handleGenerateContent comes to no await, leaves isGenerating as it is and
\* shows 'Please enter a title first' when the trimmed title is empty; and
\* the title that a handleSave passes to createArticle or updateArticle has
\* no white space around it and is not empty.
C17_ValidationBeforeCalls ==
    /\ [][ /\ (handleSave /\ (BlankTitle \/ html = "")) =>
                (OnlyErrorNotification /\ notification'.msg = MsgTitleAndContent)
           /\ (handleSave /\ ~ BlankTitle /\ html # "" /\ currentProject = NoId) =>
                (OnlyErrorNotification /\ notification'.msg = MsgNoProject)
           /\ (handleGenerateContent /\ BlankTitle) =>
                (OnlyErrorNotification /\ notification'.msg = MsgTitleFirst)
        ]_vars
    /\ [](\A task \in TasksAt("handleSave") : task.title = "t")

\* C17 witness: with the title " t ", a project chosen and canEdit true,
\* but before useEditor has created the editor, handleSave has refused the
\* save; no handler is at an await and isSaving is false.
C17_Witness ==
    /\ html = ""
    /\ title = " t "
    /\ currentProject # NoId
    /\ canEdit
    /\ notification = [msg |-> MsgTitleAndContent, type |-> "error"]
    /\ tasks = EmptyBag
    /\ ~ isSaving

----------------------------------------------------------------------------
(* Claims about the article the editor holds, checked under SpecEditor *)

\* C19: currentArticleId identifies the article whose title and content the
\* editor shows, under every interleaving of handleSave with handleNewArticle
\* and handleLoadArticle: the answer of a createArticle makes the created
\* article the current one only if the editor still shows what that save was
\* made for, not when handleNewArticle or handleLoadArticle has put a blank
\* draft or another article in the editor while the call was in flight, for
\* then the next save would update the created article with the content of
\* that draft or of that other article.
C19_IdIsOfTheArticleShown ==
    [][ \A task \in TasksAt("handleSave"), id \in EditorArticles :
           (/\ task.pc = "createArticle"
            /\ task.stale
            /\ handleSave_step(task, TRUE, id))
           => currentArticleId' # id
      ]_vars

----------------------------------------------------------------------------
(* SpecStore: projectStore with articles in projects 1 and 2.  The project *)
(* is chosen with setCurrentProject, and fetchArticles is only ever called *)
(* for the project that is current at the time of the call; the call to    *)
(* getProjectArticles answers at any later time, with the articles of the  *)
(* project asked for or with an error.                                     *)

\* fetchArticles(projectId) up to its await
fetchArticles(projectId) ==
    /\ BagCardinality(tasks) < MaxTasks
    /\ storeLoading' = TRUE
    /\ tasks' = Await(Task("fetchArticles", "getProjectArticles", projectId, NoId, ""))
    /\ UNCHANGED <<apiVars, title, html, currentProject, currentArticleId, canEdit, isSaving,
                   isGenerating, userProfile, notification, storeArticles>>

\* fetchArticles after `await getProjectArticles(projectId)`, which answers
\* the articles of the project or an error
fetchArticles_step(task, ok) ==
    /\ task.op = "fetchArticles"
    /\ IF ok
       THEN storeArticles' = {a \in articles : a.project_id = task.project}
       ELSE UNCHANGED storeArticles
    /\ storeLoading' = FALSE
    /\ tasks' = Resume(task)
    /\ UNCHANGED <<apiVars, title, html, currentProject, currentArticleId, canEdit, isSaving,
                   isGenerating, userProfile, notification>>

InitStoreSpec ==
    /\ InitEditor
    /\ InitLogs
    /\ InitStore
    /\ InitApp
    /\ userProfile \in {NoProfile, 0}
    /\ projects = SeedProjects
    /\ team_members = SeedFixedMembers
    /\ articles = {[id |-> p, project_id |-> p, content |-> "d1"] : p \in EditorProjects}
    /\ project_invitations = {}
    /\ now = InviteTtlDays - 1
    /\ calls = [k \in 1..MaxCalls |-> NoCall]
    /\ last = NoResp

NextStore ==
    \/ \E p \in EditorProjects \cup {NoId} : setCurrentProject(p) /\ UNCHANGED <<logVars, appVars>>
    \/ \E task \in TasksAt("useEffect"), b \in BOOLEAN :
          checkPermissions_step(task, b) /\ UNCHANGED editorFrame
    \/ \E task \in TasksAt("useEffect"), ok \in BOOLEAN :
          loadArticles_step(task, ok) /\ UNCHANGED editorFrame
    \/ (currentProject # NoId /\ fetchArticles(currentProject)) /\ UNCHANGED <<logVars, appVars>>
    \/ \E task \in TasksAt("fetchArticles"), ok \in BOOLEAN :
          fetchArticles_step(task, ok) /\ UNCHANGED <<logVars, appVars>>

SpecStore == InitStoreSpec /\ [][NextStore]_vars

\* C21: every article in the store's articles belongs to the current
\* project, under every interleaving of setCurrentProject with fetchArticles
\* calls in flight, whenever and in whatever order their answers arrive.
C21_ArticlesOfCurrentProject ==
    \A a \in storeArticles : a.project_id = currentProject

====
